---- MODULE Spec2Model ----
(***************************************************************************)
(* Model of the data-extraction core of the repository:                    *)
(*   - AIFinancialParser (src/lib/ai-financial-parser.ts): the model-      *)
(*     assisted financial extractor and its line-oriented fallback;        *)
(*   - parseProductsWithAI / fallbackParsing                               *)
(*     (src/app/api/parse-products/route.ts): the product extractor;       *)
(*   - extractFinancialDataFromExcel (src/app/api/parse-pdf/route.ts):     *)
(*     the heuristic metric extractor over a grid of cells.                *)
(*                                                                         *)
(* Representation.  A JavaScript string is a sequence of one-character     *)
(* strings, so that the regular expressions and String methods of the      *)
(* source can be computed character by character.  A JavaScript value is   *)
(* a record tagged with its typeof (NaN has its own tag).  A number n is   *)
(* held as the integer n * Scale; Scale = 100 keeps two decimals.  The      *)
(* two infinities are the numbers of magnitude InfinityN, above every      *)
(* finite number of the model, so that the comparisons of the source read  *)
(* as they are written; the arithmetic operators treat them apart.         *)
(***************************************************************************)
EXTENDS Integers, Sequences, FiniteSets, TLC

VARIABLES
  op,             \* the operation this behaviour runs
  env,            \* process.env.OPENAI_API_KEY
  text,           \* the text argument, as text.split('\n')
  data,           \* the any[][] grid given to extractFinancialDataFromExcel
  pc,             \* position inside the operation
  calls,          \* number of chat.completions.create calls issued
  completion,     \* how the completion call resolved
  result,         \* the value the operation returned
  thrown,         \* TRUE when the operation ended in an exception
  tier,           \* what produced result: "model", "fallback" or "heuristic"
  financialData,  \* the working record of extractFinancialDataFromExcel
  workbook,       \* the sheets XLSX.read gave parseExcelFile, in SheetNames order
  confidenceScore, \* the confidence parseExcelFile or a scorer computed
  request,        \* the form data a route handler received
  response,       \* the NextResponse a route handler returned
  inv,            \* the invocations running side by side, one record each
  chatbot,        \* the state of the ChatbotInterface component, its timers and its fetch
  navigation,     \* the request the auth middleware is given, and the session
  knowledgeBase   \* the state of the KnowledgeBasePage component and its parse request

vars == <<op, env, text, data, pc, calls, completion, result, thrown, tier, financialData,
          workbook, confidenceScore, request, response, inv, chatbot, navigation,
          knowledgeBase>>

----------------------------------------------------------------------------
(* Bounds of the model *)

\* longest text, in lines
MaxLines == 2
\* tallest grid, in rows
MaxRows == 2
\* most sheets of a workbook that has several
MaxSheets == 2
\* invocations running side by side
MaxInvocations == 2
\* longest wait for the response of a fetch, in ticks
MaxWait == 5
\* messages in the chat beyond which the user sends nothing more
MaxMessages == 6

\* fixed-point scale of numbers: two decimals
Scale == 10 * 10
\* the magnitude that stands for Infinity
InfinityN == 2 ^ 30

\* new Date().getFullYear()
CurrentYear == 2026

----------------------------------------------------------------------------
(* JavaScript strings *)

Digits == {"0", "1", "2", "3", "4", "5", "6", "7", "8", "9"}
\* \s of a regular expression, and what String.prototype.trim removes
Spaces == {" ", "\t"}

UpperCase == <<"A", "B", "C", "D", "E", "F", "G", "H", "I", "J", "K", "L", "M", "N", "O", "P", "Q", "R", "S", "T", "U", "V", "W", "X", "Y", "Z">>
LowerCase == <<"a", "b", "c", "d", "e", "f", "g", "h", "i", "j", "k", "l", "m", "n", "o", "p", "q", "r", "s", "t", "u", "v", "w", "x", "y", "z">>

Max(S) == CHOOSE x \in S : \A y \in S : y <= x
Min(S) == CHOOSE x \in S : \A y \in S : x <= y

ToLowerChar(c) ==
  IF \E i \in 1..26 : UpperCase[i] = c
  THEN LowerCase[CHOOSE i \in 1..26 : UpperCase[i] = c]
  ELSE c
ToUpperChar(c) ==
  IF \E i \in 1..26 : LowerCase[i] = c
  THEN UpperCase[CHOOSE i \in 1..26 : LowerCase[i] = c]
  ELSE c

\* String.prototype.toLowerCase / toUpperCase
toLowerCase(s) == [i \in 1..Len(s) |-> ToLowerChar(s[i])]
toUpperCase(s) == [i \in 1..Len(s) |-> ToUpperChar(s[i])]

\* sub occurs in s at position p (1-based)
At(s, p, sub) ==
  /\ p >= 1
  /\ p + Len(sub) - 1 <= Len(s)
  /\ \A i \in 1..Len(sub) : s[p + i - 1] = sub[i]

\* String.prototype.includes
includes(s, sub) == \E p \in 1..(Len(s) + 1) : At(s, p, sub)

\* number of consecutive characters of s from position p on that are in set C
RunLen(s, p, C) ==
  Max({n \in 0..(Len(s) + 1 - p) : \A i \in p..(p + n - 1) : s[i] \in C})

\* String.prototype.trim
trim(s) ==
  IF \A i \in 1..Len(s) : s[i] \in Spaces THEN <<>>
  ELSE LET a == Min({i \in 1..Len(s) : s[i] \notin Spaces})
           b == Max({i \in 1..Len(s) : s[i] \notin Spaces})
       IN SubSeq(s, a, b)

\* s.replace(/[C]/g, '') for a character class C
RECURSIVE RemoveChars(_, _)
RemoveChars(s, C) ==
  IF s = <<>> THEN <<>>
  ELSE IF Head(s) \in C THEN RemoveChars(Tail(s), C)
       ELSE <<Head(s)>> \o RemoveChars(Tail(s), C)

\* s.replace('x', ''): the first occurrence of one character only
RemoveFirst(s, c) ==
  IF \E i \in 1..Len(s) : s[i] = c
  THEN LET i == Min({j \in 1..Len(s) : s[j] = c})
       IN SubSeq(s, 1, i - 1) \o SubSeq(s, i + 1, Len(s))
  ELSE s

DigitVal(c) == CHOOSE d \in 0..9 : <<"0", "1", "2", "3", "4", "5", "6", "7", "8", "9">>[d + 1] = c

RECURSIVE DigitsToNat(_)
DigitsToNat(ds) ==
  IF ds = <<>> THEN 0
  ELSE DigitsToNat(SubSeq(ds, 1, Len(ds) - 1)) * 10 + DigitVal(ds[Len(ds)])

RECURSIVE Pow10(_)
Pow10(k) == IF k <= 0 THEN 1 ELSE 10 * Pow10(k - 1)

\* the fraction .ds as a multiple of 1/Scale (digits past the second are dropped)
FracToScaled(ds) == DigitsToNat(SubSeq(ds \o <<"0", "0">>, 1, 2))

Abs(n) == IF n < 0 THEN -n ELSE n

----------------------------------------------------------------------------
(* JavaScript values *)

Undefined == [t |-> "undefined"]
Null == [t |-> "null"]
NaN == [t |-> "NaN"]
Bool(b) == [t |-> "boolean", b |-> b]
\* the number x, held as n = x * Scale
Num(n) == [t |-> "number", n |-> n]
\* the whole number k
Whole(k) == Num(k * Scale)
\* Infinity and -Infinity
Infinity == Num(InfinityN)
NegInfinity == Num(-InfinityN)
Infinite(v) == v.t = "number" /\ Abs(v.n) = InfinityN
Str(s) == [t |-> "string", s |-> s]
\* an object with the own properties DOMAIN o
Obj(o) == [t |-> "object", o |-> o]
Arr(a) == [t |-> "array", a |-> a]

typeof(v) ==
  CASE v.t = "NaN" -> "number"
    [] v.t \in {"null", "array"} -> "object"
    [] OTHER -> v.t

isNaN(v) == v.t = "NaN"

\* ToBoolean
Truthy(v) ==
  CASE v.t \in {"undefined", "null", "NaN"} -> FALSE
    [] v.t = "boolean" -> v.b
    [] v.t = "number" -> v.n # 0
    [] v.t = "string" -> v.s # <<>>
    [] OTHER -> TRUE

\* a || b
OrElse(a, b) == IF Truthy(a) THEN a ELSE b

\* v?.k : undefined on undefined and null, a missing property is undefined
OptGet(v, k) ==
  IF v.t = "object" /\ k \in DOMAIN v.o THEN v.o[k] ELSE Undefined

\* Number.prototype.toString of a natural number
RECURSIVE NatToStr(_)
NatToStr(n) ==
  IF n < 10 THEN <<<<"0", "1", "2", "3", "4", "5", "6", "7", "8", "9">>[n + 1]>>
  ELSE NatToStr(n \div 10) \o <<<<"0", "1", "2", "3", "4", "5", "6", "7", "8", "9">>[(n % 10) + 1]>>

\* the longest prefix of s that is a decimal literal: leading blanks, a sign,
\* then Infinity, or digits, a fraction and an exponent (StrDecimalLiteral).
\* p0: after the blanks; p1: after the sign; n1, n2, n3: the digits of the
\* integer part, the fraction and the exponent; p2: after the fraction.
FloatShape(s) ==
  LET Exponent(neg, int, frac, p2, esign, p3) ==
        LET Shape(n3) ==
              [neg |-> neg, inf |-> FALSE, int |-> int, frac |-> frac,
               eneg |-> n3 > 0 /\ esign /\ s[p2 + 1] = "-",
               exp |-> SubSeq(s, p3, p3 + n3 - 1),
               end |-> IF n3 > 0 THEN p3 + n3 - 1 ELSE p2 - 1]
        IN Shape(IF p2 <= Len(s) /\ s[p2] \in {"e", "E"}
                 THEN RunLen(s, p3, Digits) ELSE 0)
      AfterFraction(neg, int, frac, p2) ==
        Exponent(neg, int, frac, p2,
                 p2 + 1 <= Len(s) /\ s[p2 + 1] \in {"-", "+"},
                 IF p2 + 1 <= Len(s) /\ s[p2 + 1] \in {"-", "+"} THEN p2 + 2 ELSE p2 + 1)
      Fraction(neg, p1, n1, dot) ==
        LET Digs(n2) ==
              AfterFraction(neg, SubSeq(s, p1, p1 + n1 - 1),
                            SubSeq(s, p1 + n1 + 1, p1 + n1 + n2),
                            IF dot THEN p1 + n1 + 1 + n2 ELSE p1 + n1)
        IN Digs(IF dot THEN RunLen(s, p1 + n1 + 1, Digits) ELSE 0)
      Integer(neg, p1) ==
        LET Digs(n1) == Fraction(neg, p1, n1, p1 + n1 <= Len(s) /\ s[p1 + n1] = ".")
        IN IF At(s, p1, <<"I", "n", "f", "i", "n", "i", "t", "y">>)
           THEN [neg |-> neg, inf |-> TRUE, int |-> <<>>, frac |-> <<>>,
                 eneg |-> FALSE, exp |-> <<>>, end |-> p1 + 7]
           ELSE Digs(RunLen(s, p1, Digits))
      Sign(p0) ==
        Integer(p0 <= Len(s) /\ s[p0] = "-",
                IF p0 <= Len(s) /\ s[p0] \in {"-", "+"} THEN p0 + 1 ELSE p0)
  IN Sign(1 + RunLen(s, 1, Spaces))

\* the value of a decimal literal of shape f, NaN when it has no digit.  A
\* non-zero mantissa of the model times 10^400 or more is beyond the largest
\* double, and rounds to Infinity.
FloatValue(f) ==
  LET Scaled(mant, ex) ==
        LET Signed(mag) == Num(IF f.neg THEN -mag ELSE mag)
        IN Signed(IF f.exp = <<>> \/ mant = 0 THEN mant
                  ELSE IF f.eneg THEN (IF ex > 9 THEN 0 ELSE mant \div Pow10(ex))
                  ELSE IF ex >= 400 THEN InfinityN
                  ELSE mant * Pow10(ex))
  IN IF f.inf THEN (IF f.neg THEN NegInfinity ELSE Infinity)
     ELSE IF Len(f.int) + Len(f.frac) = 0 THEN NaN
     ELSE Scaled(DigitsToNat(f.int) * Scale + FracToScaled(f.frac), DigitsToNat(f.exp))

\* parseFloat of a string
ParseFloatStr(s) == FloatValue(FloatShape(s))

\* parseFloat(v): v is converted to a string first
parseFloat(v) ==
  CASE v.t = "number" -> v
    [] v.t = "string" -> ParseFloatStr(v.s)
    [] OTHER -> NaN

\* parseInt of a string: leading blanks, a sign, digits
ParseIntStr(s) ==
  LET Digs(neg, ds) ==
        IF ds = <<>> THEN NaN
        ELSE Num((IF neg THEN -1 ELSE 1) * DigitsToNat(ds) * Scale)
      Sign(p0) ==
        LET After(p1) == Digs(p0 <= Len(s) /\ s[p0] = "-",
                              SubSeq(s, p1, p1 + RunLen(s, p1, Digits) - 1))
        IN After(IF p0 <= Len(s) /\ s[p0] \in {"-", "+"} THEN p0 + 1 ELSE p0)
  IN Sign(1 + RunLen(s, 1, Spaces))

\* parseInt(v): a finite number is truncated toward zero, "Infinity" has no digit
parseInt(v) ==
  CASE v.t = "number" ->
         IF Infinite(v) THEN NaN
         ELSE Num((IF v.n < 0 THEN -1 ELSE 1) * ((Abs(v.n) \div Scale) * Scale))
    [] v.t = "string" -> ParseIntStr(v.s)
    [] OTHER -> NaN

\* Number(s) of a string: the whole trimmed string must be a decimal literal
StringToNumber(s) ==
  LET Of(f) == IF f.end = Len(s) THEN FloatValue(f) ELSE NaN
  IN IF s = <<>> THEN Whole(0) ELSE Of(FloatShape(s))

\* ToNumber
ToNumber(v) ==
  CASE v.t \in {"number", "NaN"} -> v
    [] v.t = "undefined" -> NaN
    [] v.t = "null" -> Whole(0)
    [] v.t = "boolean" -> IF v.b THEN Whole(1) ELSE Whole(0)
    [] v.t = "string" -> StringToNumber(trim(v.s))
    [] OTHER -> NaN

\* Math.max(a, b) and Math.min(a, b): ToNumber of both arguments first
MathMax(a, b) ==
  LET Of(x, y) == IF isNaN(x) \/ isNaN(y) THEN NaN
                  ELSE IF x.n >= y.n THEN x ELSE y
  IN Of(ToNumber(a), ToNumber(b))

MathMin(a, b) ==
  LET Of(x, y) == IF isNaN(x) \/ isNaN(y) THEN NaN
                  ELSE IF x.n <= y.n THEN x ELSE y
  IN Of(ToNumber(a), ToNumber(b))

----------------------------------------------------------------------------
(* FinancialData and ParsedFinancialStatement (src/lib/ai-financial-parser.ts) *)

MetricFields ==
  {"revenue", "costOfGoodsSold", "grossProfit", "operatingExpenses",
   "operatingIncome", "netIncome", "totalAssets", "totalLiabilities",
   "totalEquity", "cash", "accountsReceivable", "inventory",
   "propertyPlantEquipment", "accountsPayable", "longTermDebt"}

Fields == MetricFields \cup {"year"}

StatementTypes == {<<"i", "n", "c", "o", "m", "e">>, <<"b", "a", "l", "a", "n", "c", "e">>, <<"c", "a", "s", "h", "f", "l", "o", "w">>}

getDefaultFinancialData ==
  [f \in Fields |-> IF f = "year" THEN Whole(CurrentYear) ELSE Whole(0)]

\* v > 0 and v !== 0 on JavaScript values (every comparison with NaN is false)
Positive(v) == v.t = "number" /\ v.n > 0
Negative(v) == v.t = "number" /\ v.n < 0
NonZero(v) == ~(v.t = "number" /\ v.n = 0)
\* a - b
Minus(a, b) ==
  IF a.t # "number" \/ b.t # "number" THEN NaN
  ELSE IF Infinite(a) THEN (IF b = a THEN NaN ELSE a)
  ELSE IF Infinite(b) THEN Num(-b.n)
  ELSE Num(a.n - b.n)

\* position after (,\d{3})* matched greedily from position p
RECURSIVE CommaGroups(_, _)
CommaGroups(s, p) ==
  IF p <= Len(s) /\ s[p] = "," /\ RunLen(s, p + 1, Digits) >= 3
  THEN CommaGroups(s, p + 4)
  ELSE p

\* the first match of /-?\d{1,3}(,\d{3})*(\.\d{2})?/ in s, or <<>> when there is none
FirstGroupedNumber(s) ==
  LET Cents(p, q) ==
        SubSeq(s, p, IF q <= Len(s) /\ s[q] = "." /\ RunLen(s, q + 1, Digits) >= 2
                     THEN q + 2 ELSE q - 1)
      Groups(p, d) == Cents(p, CommaGroups(s, d + Min({3, RunLen(s, d, Digits)})))
      From(p) == Groups(p, IF s[p] = "-" THEN p + 1 ELSE p)
      First(starts) == IF starts = {} THEN <<>> ELSE From(Min(starts))
  IN First({p \in 1..Len(s) :
              \/ s[p] \in Digits
              \/ s[p] = "-" /\ p + 1 <= Len(s) /\ s[p + 1] \in Digits})

\* isNaN(value) ? 0 : value
ZeroIfNaN(value) == IF isNaN(value) THEN Whole(0) ELSE value

extractNumberFromLine(line) ==
  LET Of(m) == IF m # <<>>
               THEN ZeroIfNaN(ParseFloatStr(RemoveChars(m, {","})))
               ELSE Whole(0)
  IN Of(FirstGroupedNumber(line))

\* calculateConfidence that counts netIncome only when it is above 0
calculateConfidencePositiveIncome(d) ==
  LET confidence ==
        (IF Positive(d.revenue) THEN 20 ELSE 0)
        + (IF Positive(d.netIncome) THEN 20 ELSE 0)
        + (IF Positive(d.totalAssets) THEN 15 ELSE 0)
        + (IF Positive(d.totalLiabilities) THEN 15 ELSE 0)
        + (IF Positive(d.cash) THEN 10 ELSE 0)
        + (IF Positive(d.accountsReceivable) THEN 10 ELSE 0)
        + (IF Positive(d.inventory) THEN 10 ELSE 0)
      totalChecks ==
        Cardinality({f \in {"revenue", "netIncome", "totalAssets", "totalLiabilities",
                            "cash", "accountsReceivable", "inventory"} : Positive(d[f])})
  IN IF totalChecks > 0 THEN Whole(Min({confidence, 100})) ELSE Whole(0)

calculateConfidence(d) ==
  LET confidence ==
        (IF Positive(d.revenue) THEN 20 ELSE 0)
        + (IF NonZero(d.netIncome) THEN 20 ELSE 0)
        + (IF Positive(d.totalAssets) THEN 15 ELSE 0)
        + (IF Positive(d.totalLiabilities) THEN 15 ELSE 0)
        + (IF Positive(d.cash) THEN 10 ELSE 0)
        + (IF Positive(d.accountsReceivable) THEN 10 ELSE 0)
        + (IF Positive(d.inventory) THEN 10 ELSE 0)
      totalChecks ==
        Cardinality({f \in {"revenue", "totalAssets", "totalLiabilities", "cash",
                            "accountsReceivable", "inventory"} : Positive(d[f])})
        + (IF NonZero(d.netIncome) THEN 1 ELSE 0)
  IN IF totalChecks > 0 THEN Whole(Min({confidence, 100})) ELSE Whole(0)

\* the company name of the line-oriented fallback: the first of the first five
\* lines that is 4..99 characters long, has no '$' and is not all digits
FallbackCompanyName(lines) ==
  LET NameLike(line) ==
        /\ Len(line) > 3
        /\ Len(line) < 100
        /\ ~includes(line, <<"$">>)
        /\ ~(line # <<>> /\ \A k \in 1..Len(line) : line[k] \in Digits)
      First(hits) == IF hits = {} THEN <<"U", "n", "k", "n", "o", "w", "n", " ", "C", "o", "m", "p", "a", "n", "y">> ELSE trim(lines[Min(hits)])
  IN First({i \in 1..Min({5, Len(lines)}) : NameLike(trim(lines[i]))})

\* the fields whose pattern the lower-cased line contains
FallbackLineFields(lowerLine) ==
  {f \in Fields :
     \/ f = "revenue" /\ (\/ includes(lowerLine, <<"r", "e", "v", "e", "n", "u", "e">>)
                          \/ includes(lowerLine, <<"s", "a", "l", "e", "s">>)
                          \/ includes(lowerLine, <<"i", "n", "c", "o", "m", "e">>))
     \/ f = "costOfGoodsSold" /\ (\/ includes(lowerLine, <<"c", "o", "s", "t", " ", "o", "f", " ", "g", "o", "o", "d", "s", " ", "s", "o", "l", "d">>)
                                  \/ includes(lowerLine, <<"c", "o", "g", "s">>))
     \/ f = "netIncome" /\ (\/ includes(lowerLine, <<"n", "e", "t", " ", "i", "n", "c", "o", "m", "e">>)
                            \/ includes(lowerLine, <<"n", "e", "t", " ", "p", "r", "o", "f", "i", "t">>))
     \/ f = "totalAssets" /\ includes(lowerLine, <<"t", "o", "t", "a", "l", " ", "a", "s", "s", "e", "t", "s">>)
     \/ f = "totalLiabilities" /\ includes(lowerLine, <<"t", "o", "t", "a", "l", " ", "l", "i", "a", "b", "i", "l", "i", "t", "i", "e", "s">>)
     \/ f = "cash" /\ includes(lowerLine, <<"c", "a", "s", "h">>)}

\* one iteration of the loop over the lines: every matching pattern stores the
\* line's number in its field when that number is positive
FallbackLine(fd, line) ==
  LET Store(value, hit) ==
        [f \in Fields |-> IF f \in hit /\ Positive(value) THEN value ELSE fd[f]]
  IN Store(extractNumberFromLine(line), FallbackLineFields(toLowerCase(line)))

RECURSIVE FallbackScan(_, _)
FallbackScan(fd, lines) ==
  IF lines = <<>> THEN fd
  ELSE FallbackScan(FallbackLine(fd, Head(lines)), Tail(lines))

\* "Calculate derived values" of the fallback
FallbackDerive(fd) ==
  IF fd.grossProfit = Whole(0) /\ Positive(fd.revenue) /\ Positive(fd.costOfGoodsSold)
  THEN [fd EXCEPT !.grossProfit = Minus(fd.revenue, fd.costOfGoodsSold)]
  ELSE fd

\* AIFinancialParser.fallbackParsing
FinancialFallbackParsing(lines) ==
  LET Statement(fd) ==
        [companyName |-> Str(FallbackCompanyName(lines)),
         statementType |-> Str(<<"i", "n", "c", "o", "m", "e">>),
         period |-> Str(NatToStr(CurrentYear)),
         data |-> fd,
         rawText |-> lines,
         confidence |-> calculateConfidence(fd)]
  IN Statement(FallbackDerive(FallbackScan(getDefaultFinancialData, lines)))

cleanNumber(value) ==
  IF typeof(value) = "number" THEN value
  ELSE IF typeof(value) = "string"
       THEN ZeroIfNaN(ParseFloatStr(RemoveChars(value.s, {",", "$"})))
       ELSE Whole(0)

validateAndCleanData(d) ==
  [companyName |-> OrElse(OptGet(d, "companyName"), Str(<<"U", "n", "k", "n", "o", "w", "n", " ", "C", "o", "m", "p", "a", "n", "y">>)),
   statementType |-> OrElse(OptGet(d, "statementType"), Str(<<"i", "n", "c", "o", "m", "e">>)),
   period |-> OrElse(OptGet(d, "period"), Str(NatToStr(CurrentYear))),
   data |-> [f \in Fields |->
               OrElse(cleanNumber(OptGet(OptGet(d, "data"), f)),
                      IF f = "year" THEN Whole(CurrentYear) ELSE Whole(0))],
   confidence |->
     MathMin(MathMax(OrElse(cleanNumber(OptGet(d, "confidence")), Whole(0)), Whole(0)),
             Whole(100))]

\* parseAIResponse: c is the completion text seen through response.match and
\* JSON.parse ("noblock": no {...} block; "badjson": the block does not parse;
\* "json": it parses to c.parsed)
parseAIResponse(c) ==
  IF c.kind = "json" THEN validateAndCleanData(c.parsed)
  ELSE [companyName |-> Str(<<"U", "n", "k", "n", "o", "w", "n", " ", "C", "o", "m", "p", "a", "n", "y">>),
        statementType |-> Str(<<"i", "n", "c", "o", "m", "e">>),
        period |-> Str(NatToStr(CurrentYear)),
        data |-> getDefaultFinancialData,
        confidence |-> Whole(0)]

\* the object parseFinancialDataFromText builds from the parsed response
FinancialModelResult(lines, c) ==
  LET Statement(parsedData) ==
        [companyName |-> OrElse(parsedData.companyName, Str(<<"U", "n", "k", "n", "o", "w", "n", " ", "C", "o", "m", "p", "a", "n", "y">>)),
         statementType |-> OrElse(parsedData.statementType, Str(<<"i", "n", "c", "o", "m", "e">>)),
         period |-> OrElse(parsedData.period, Str(NatToStr(CurrentYear))),
         data |-> parsedData.data,
         rawText |-> lines,
         confidence |-> OrElse(parsedData.confidence, Whole(0))]
  IN Statement(parseAIResponse(c))
----------------------------------------------------------------------------
(* The product extractor (src/app/api/parse-products/route.ts) *)

\* the non-ASCII characters of the source's patterns, each one character of a string
EuroSign == "<U+20AC>"
PoundSign == "<U+00A3>"
YenSign == "<U+00A5>"
EnDash == "<U+2013>"
EmDash == "<U+2014>"

\* [\$€£¥] and [-–—]
CurrencySigns == {"$", EuroSign, PoundSign, YenSign}
Dashes == {"-", EnDash, EmDash}

\* Number.prototype.toString of a number with at most two decimals
NumToStr(n) ==
  LET Decimals(two) ==
        LET Kept(keep) == IF keep = 0 THEN <<>> ELSE <<".">> \o SubSeq(two, 1, keep)
        IN Kept(Max({k \in 0..2 : k = 0 \/ two[k] # "0"}))
      Fraction(frac) == Decimals(IF frac < 10 THEN <<"0">> \o NatToStr(frac) ELSE NatToStr(frac))
  IN (IF n < 0 THEN <<"-">> ELSE <<>>)
     \o (IF Abs(n) = InfinityN THEN <<"I", "n", "f", "i", "n", "i", "t", "y">>
         ELSE NatToStr(Abs(n) \div Scale) \o Fraction(Abs(n) % Scale))

\* String(v) of a truthy value
StringOf(v) ==
  CASE v.t = "string" -> v.s
    [] v.t = "number" -> NumToStr(v.n)
    [] v.t = "boolean" -> IF v.b THEN <<"t", "r", "u", "e">> ELSE <<"f", "a", "l", "s", "e">>
    [] v.t = "undefined" -> <<"u", "n", "d", "e", "f", "i", "n", "e", "d">>
    [] v.t = "null" -> <<"n", "u", "l", "l">>
    [] v.t = "NaN" -> <<"N", "a", "N">>
    [] OTHER -> <<"[", "o", "b", "j", "e", "c", "t", " ", "O", "b", "j", "e", "c", "t", "]">>

\* a * b
Times(a, b) ==
  IF a.t # "number" \/ b.t # "number" THEN NaN
  ELSE IF Infinite(a) \/ Infinite(b)
  THEN (IF a.n = 0 \/ b.n = 0 THEN NaN
        ELSE IF (a.n < 0) = (b.n < 0) THEN Infinity ELSE NegInfinity)
  ELSE Num(a.n * (b.n \div Scale) + (a.n * (b.n % Scale)) \div Scale)
\* a + b
Plus(a, b) ==
  IF a.t # "number" \/ b.t # "number" THEN NaN
  ELSE IF Infinite(a) THEN (IF Infinite(b) /\ b # a THEN NaN ELSE a)
  ELSE IF Infinite(b) THEN b
  ELSE Num(a.n + b.n)

\* products.reduce((sum, p) => sum + p.quantity, 0)
RECURSIVE SumQuantity(_)
SumQuantity(products) ==
  IF products = <<>> THEN Whole(0)
  ELSE Plus(SumQuantity(SubSeq(products, 1, Len(products) - 1)),
            products[Len(products)].quantity)

\* products.reduce((sum, p) => sum + (p.price * p.quantity), 0)
RECURSIVE SumValue(_)
SumValue(products) ==
  IF products = <<>> THEN Whole(0)
  ELSE Plus(SumValue(SubSeq(products, 1, Len(products) - 1)),
            Times(products[Len(products)].price, products[Len(products)].quantity))

\* the position of the first digit of s, or 0
FirstDigit(s) ==
  IF \E p \in 1..Len(s) : s[p] \in Digits
  THEN Min({p \in 1..Len(s) : s[p] \in Digits})
  ELSE 0

\* position of the last character of \d+(?:,\d{3})*(?:\.\d{2})? matched from the digit at d
AmountEnd(s, d) ==
  LET Cents(q) == IF q <= Len(s) /\ s[q] = "." /\ RunLen(s, q + 1, Digits) >= 2
                  THEN q + 2 ELSE q - 1
  IN Cents(CommaGroups(s, d + RunLen(s, d, Digits)))

\* parsePrice: group 1 of the first match of /[\$€£¥]?\s*(\d+(?:,\d{3})*(?:\.\d{2})?)/
\* starts at the first digit of the string
parsePrice(str) ==
  LET From(d) ==
        IF d # 0
        THEN ParseFloatStr(RemoveChars(SubSeq(str, d, AmountEnd(str, d)), {","}))
        ELSE Whole(0)
  IN From(FirstDigit(str))

\* parseQuantity: group 1 of /(\d+)\s*(?:pieces?|units?|pcs?|qty|quantity)?/i is
\* the first run of digits, the unit being optional
parseQuantity(str) ==
  LET From(d) ==
        IF d # 0
        THEN ParseIntStr(SubSeq(str, d, d + RunLen(str, d, Digits) - 1))
        ELSE Whole(1)
  IN From(FirstDigit(str))

detectCurrency(str) ==
  LET Of(upper) ==
        IF includes(str, <<"$">>) \/ includes(upper, <<"U", "S", "D">>) THEN <<"U", "S", "D">>
        ELSE IF includes(str, <<EuroSign>>) \/ includes(upper, <<"E", "U", "R">>) THEN <<"E", "U", "R">>
        ELSE IF includes(str, <<PoundSign>>) \/ includes(upper, <<"G", "B", "P">>) THEN <<"G", "B", "P">>
        ELSE IF includes(str, <<YenSign>>) \/ includes(upper, <<"J", "P", "Y">>) THEN <<"J", "P", "Y">>
        ELSE <<"U", "S", "D">>
  IN Of(toUpperCase(str))

\* the position of the dash that \s*[-–—] matches right after position l, or 0
DashAfter(s, l) ==
  LET At0(m) == IF m <= Len(s) /\ s[m] \in Dashes THEN m ELSE 0
  IN At0(l + 1 + RunLen(s, l + 1, Spaces))

\* Format 1: /^(.+?)\s*[-–—]\s*(.+?)\s*[-–—]\s*(.+?)$/ with the regex engine's
\* priorities: group 1 as short as possible, the blanks before group 2 as long as
\* possible, group 2 as short as possible, group 3 the rest after its blanks.
\* <<>> when the line does not match, else <<name, priceStr, qtyStr>>.
\* dash[l]: the dash after position l; ends[k]: the ends l of a group 2 that
\* starts at k (a dash follows, and text follows the dash); starts[j]: the
\* starts k of group 2 after the dash at j.
Format1(s) ==
  LET Match(dash) ==
        LET Ends(ends) ==
              LET Starts(starts) ==
                    LET Groups(i, k, l) ==
                          <<SubSeq(s, 1, i), SubSeq(s, k, l),
                            SubSeq(s, dash[l] + 1 + RunLen(s, dash[l] + 1, Spaces), Len(s))>>
                        Second(i, k) == Groups(i, k, Min(ends[k]))
                        First(i) == Second(i, Max(starts[dash[i]]))
                        Names(names) == IF names = {} THEN <<>> ELSE First(Min(names))
                    IN Names({i \in 1..Len(s) : dash[i] # 0 /\ starts[dash[i]] # {}})
              IN Starts([j \in 1..Len(s) |->
                           {k \in (j + 1)..(j + 1 + RunLen(s, j + 1, Spaces)) :
                              k <= Len(s) /\ ends[k] # {}}])
        IN Ends([k \in 1..Len(s) |->
                   {l \in k..Len(s) : dash[l] # 0 /\ dash[l] < Len(s)}])
  IN Match([l \in 1..Len(s) |-> DashAfter(s, l)])

\* the length of the first alternative of ws that lower-cased s has at position p, or 0
WordAt(s, p, ws) ==
  LET First(hit) == IF hit = {} THEN 0 ELSE Len(ws[Min(hit)])
  IN First({i \in 1..Len(ws) : At(toLowerCase(s), p, ws[i])})

CurrencyCodes == <<<<"u", "s", "d">>, <<"e", "u", "r">>, <<"g", "b", "p">>, <<"j", "p", "y">>>>
\* pieces?|units?|pcs?|qty and the same with |quantity
QuantityWords == <<<<"p", "i", "e", "c", "e", "s">>, <<"p", "i", "e", "c", "e">>, <<"u", "n", "i", "t", "s">>, <<"u", "n", "i", "t">>, <<"p", "c", "s">>, <<"p", "c">>, <<"q", "t", "y">>>>
QuantityWordsLong == QuantityWords \o <<<<"q", "u", "a", "n", "t", "i", "t", "y">>>>

\* length of the match of \d+\s*(?:w1|w2|...) at position p, or 0
DigitsThenWord(s, p, ws) ==
  LET Word(q, w) == IF w > 0 THEN q + w - p ELSE 0
      Blanks(q) == Word(q, WordAt(s, q, ws))
      Digs(n) == IF n > 0 THEN Blanks(p + n + RunLen(s, p + n, Spaces)) ELSE 0
  IN Digs(IF p <= Len(s) THEN RunLen(s, p, Digits) ELSE 0)

\* length of the match of [\$€£¥]\s*\d+(?:,\d{3})*(?:\.\d{2})? at position p, or 0
SignThenAmount(s, p) ==
  LET Amount(q) == IF q <= Len(s) /\ s[q] \in Digits THEN AmountEnd(s, q) - p + 1 ELSE 0
  IN IF p <= Len(s) /\ s[p] \in CurrencySigns
     THEN Amount(p + 1 + RunLen(s, p + 1, Spaces)) ELSE 0

\* length of the match at position p of the pattern named kind
MatchLen(kind, s, p) ==
  CASE kind = "signAmount" -> SignThenAmount(s, p)
    [] kind = "amountCode" -> DigitsThenWord(s, p, CurrencyCodes)
    [] kind = "quantity" -> DigitsThenWord(s, p, QuantityWordsLong)
    [] kind = "dash" -> IF p <= Len(s) /\ s[p] \in Dashes THEN 1 ELSE 0

\* s.replace(/pattern/g, '') from position p on
RECURSIVE ReplaceAll(_, _, _)
ReplaceAll(kind, s, p) ==
  LET Step(n) == IF n > 0 THEN ReplaceAll(kind, s, p + n)
                 ELSE <<s[p]>> \o ReplaceAll(kind, s, p + 1)
  IN IF p > Len(s) THEN <<>> ELSE Step(MatchLen(kind, s, p))

\* /[\$€£¥]\s*\d+|\d+\s*(?:USD|EUR|GBP|JPY)/i.test
hasPrice(s) ==
  LET SignDigits(q) == q <= Len(s) /\ s[q] \in Digits
  IN \E p \in 1..Len(s) :
       \/ s[p] \in CurrencySigns /\ SignDigits(p + 1 + RunLen(s, p + 1, Spaces))
       \/ DigitsThenWord(s, p, CurrencyCodes) > 0

\* /\d+\s*(?:pieces?|units?|pcs?|qty)/i.test
hasQuantity(s) == \E p \in 1..Len(s) : DigitsThenWord(s, p, QuantityWords) > 0

\* the name of Format 2: the line without its price and quantity tokens and dashes
Format2Name(s) ==
  trim(ReplaceAll("dash",
         ReplaceAll("quantity",
           ReplaceAll("amountCode",
             ReplaceAll("signAmount", s, 1), 1), 1), 1))

\* the Format 1 branch: <<>> when the line does not match or is rejected
ProductByFormat1(format1) ==
  LET Product(price) ==
        IF format1[1] # <<>> /\ Positive(price)
        THEN << [name |-> trim(format1[1]),
                 price |-> price,
                 quantity |-> parseQuantity(format1[3]),
                 currency |-> detectCurrency(format1[2])] >>
        ELSE <<>>
  IN IF format1 # <<>> THEN Product(parsePrice(format1[2])) ELSE <<>>

\* the Format 2 branch
ProductByFormat2(trimmedLine) ==
  LET Product(price, quantity, name) ==
        IF name # <<>> /\ Len(name) > 2 /\ (Positive(price) \/ Positive(quantity))
        THEN << [name |-> name,
                 price |-> OrElse(price, Whole(0)),
                 quantity |-> OrElse(quantity, Whole(1)),
                 currency |-> detectCurrency(trimmedLine)] >>
        ELSE <<>>
  IN IF hasPrice(trimmedLine) \/ hasQuantity(trimmedLine)
     THEN Product(parsePrice(trimmedLine), parseQuantity(trimmedLine),
                  Format2Name(trimmedLine))
     ELSE <<>>

\* ProductsOfLine without the continue of Format 1
ProductsOfLineBothFormats(line) ==
  LET Formats(trimmedLine) ==
        IF Len(trimmedLine) < 3 THEN <<>>
        ELSE ProductByFormat1(Format1(trimmedLine)) \o ProductByFormat2(trimmedLine)
  IN Formats(trim(line))

\* the body of the loop over the lines: the products the line adds
ProductsOfLine(line) ==
  LET Formats(trimmedLine) ==
        LET Second(first) == IF first # <<>> THEN first ELSE ProductByFormat2(trimmedLine)
        IN IF Len(trimmedLine) < 3 THEN <<>>
           ELSE Second(ProductByFormat1(Format1(trimmedLine)))
  IN Formats(trim(line))

RECURSIVE ProductsOfLines(_)
ProductsOfLines(lines) ==
  IF lines = <<>> THEN <<>>
  ELSE ProductsOfLine(Head(lines)) \o ProductsOfLines(Tail(lines))

\* WithTotals that counts the products for totalItems
WithTotalsCounted(products, lines, confidence) ==
  [products |-> products,
   totalItems |-> Whole(Len(products)),
   totalValue |-> SumValue(products),
   rawText |-> lines,
   confidence |-> confidence]

\* the list with its totals
WithTotals(products, lines, confidence) ==
  [products |-> products,
   totalItems |-> SumQuantity(products),
   totalValue |-> SumValue(products),
   rawText |-> lines,
   confidence |-> confidence]

\* fallbackParsing of the product route
ProductFallbackParsing(lines) ==
  LET Of(products) ==
        WithTotals(products, lines, IF Len(products) > 0 THEN Whole(60) ELSE Whole(0))
  IN Of(ProductsOfLines(lines))

\* (parsed.products || []).map(...) throws a TypeError when products is truthy
\* and no array, or when an element is null
ProductsMapThrows(parsed) ==
  LET Throws(ps) ==
        /\ Truthy(ps)
        /\ \/ ps.t # "array"
           \/ \E i \in 1..Len(ps.a) : ps.a[i].t \in {"null", "undefined"}
  IN Throws(OptGet(parsed, "products"))

\* the body of the map callback
CoerceProduct(p) ==
  [name |-> StringOf(OrElse(OptGet(p, "name"), Str(<<"U", "n", "k", "n", "o", "w", "n", " ", "P", "r", "o", "d", "u", "c", "t">>))),
   price |-> OrElse(parseFloat(OptGet(p, "price")), Whole(0)),
   quantity |-> OrElse(parseInt(OptGet(p, "quantity")), Whole(1)),
   currency |-> StringOf(OrElse(OptGet(p, "currency"), Str(<<"U", "S", "D">>)))]

\* the object parseProductsWithAI builds from the parsed JSON
ProductModelResult(lines, parsed) ==
  LET Map(ps) == [i \in 1..Len(ps.a) |-> CoerceProduct(ps.a[i])]
  IN WithTotals(Map(OrElse(OptGet(parsed, "products"), Arr(<<>>))), lines,
                MathMin(MathMax(OrElse(OptGet(parsed, "confidence"), Whole(0)), Whole(0)),
                        Whole(100)))
----------------------------------------------------------------------------
(* The heuristic metric extractor: extractFinancialDataFromExcel               *)
(* (src/app/api/parse-pdf/route.ts).  sheet_to_json is called with raw: false  *)
(* and defval: '', so every cell of the grid is a string.                      *)

\* the first match of /-?\d+\.?\d*/ in s, or <<>>
FirstPlainNumber(s) ==
  LET Decimals(p, q) ==
        SubSeq(s, p, IF q <= Len(s) /\ s[q] = "."
                     THEN q + RunLen(s, q + 1, Digits) ELSE q - 1)
      Digs(p, d) == Decimals(p, d + RunLen(s, d, Digits))
      From(p) == Digs(p, IF s[p] = "-" THEN p + 1 ELSE p)
      First(starts) == IF starts = {} THEN <<>> ELSE From(Min(starts))
  IN First({p \in 1..Len(s) :
              \/ s[p] \in Digits
              \/ s[p] = "-" /\ p + 1 <= Len(s) /\ s[p + 1] \in Digits})

\* n / 100 on the fixed-point representation
DivideBy100(v) ==
  IF Infinite(v) THEN v ELSE Num((IF v.n < 0 THEN -1 ELSE 1) * (Abs(v.n) \div 100))

\* parseValue of a string cell.  The comma branch is unreachable (the commas are
\* removed first) and is left out.
parseValue(value) ==
  LET Text(cleaned) ==
        LET Number(numberMatch) ==
              IF numberMatch # <<>> THEN ZeroIfNaN(ParseFloatStr(numberMatch))
              ELSE ZeroIfNaN(ParseFloatStr(cleaned))
        IN Number(FirstPlainNumber(cleaned))
      Percentage(parsed) == IF isNaN(parsed) THEN Whole(0) ELSE DivideBy100(parsed)
      Formats(cleaned) ==
        IF includes(cleaned, <<"%">>)
        THEN Percentage(ParseFloatStr(RemoveFirst(cleaned, "%")))
        ELSE IF includes(cleaned, <<"e">>) \/ includes(cleaned, <<"E">>)
        THEN ZeroIfNaN(ParseFloatStr(cleaned))
        ELSE Text(RemoveChars(cleaned, CurrencySigns))
      Parentheses(cleaned) ==
        Formats(IF cleaned # <<>> /\ Head(cleaned) = "(" /\ cleaned[Len(cleaned)] = ")"
                THEN <<"-">> \o SubSeq(cleaned, 2, Len(cleaned) - 1)
                ELSE cleaned)
  IN Parentheses(RemoveChars(value, {",", "$"} \cup Spaces))

patterns ==
  [f \in MetricFields |->
     CASE f = "revenue" ->
         <<<<"r", "e", "v", "e", "n", "u", "e">>, <<"s", "a", "l", "e", "s">>, <<"i", "n", "c", "o", "m", "e">>, <<"t", "o", "t", "a", "l", " ", "r", "e", "v", "e", "n", "u", "e">>, <<"n", "e", "t", " ", "s", "a", "l", "e", "s">>,
         <<"g", "r", "o", "s", "s", " ", "s", "a", "l", "e", "s">>, <<"s", "e", "r", "v", "i", "c", "e", " ", "r", "e", "v", "e", "n", "u", "e">>, <<"p", "r", "o", "d", "u", "c", "t", " ", "r", "e", "v", "e", "n", "u", "e">>,
         <<"o", "p", "e", "r", "a", "t", "i", "n", "g", " ", "r", "e", "v", "e", "n", "u", "e">>, <<"n", "e", "t", " ", "r", "e", "v", "e", "n", "u", "e">>>>
       [] f = "costOfGoodsSold" ->
         <<<<"c", "o", "s", "t", " ", "o", "f", " ", "g", "o", "o", "d", "s", " ", "s", "o", "l", "d">>, <<"c", "o", "g", "s">>, <<"c", "o", "s", "t", " ", "o", "f", " ", "s", "a", "l", "e", "s">>,
         <<"c", "o", "s", "t", " ", "o", "f", " ", "r", "e", "v", "e", "n", "u", "e">>, <<"d", "i", "r", "e", "c", "t", " ", "c", "o", "s", "t", "s">>, <<"c", "o", "s", "t", " ", "o", "f", " ", "p", "r", "o", "d", "u", "c", "t", "s", " ", "s", "o", "l", "d">>,
         <<"c", "o", "s", "t", " ", "o", "f", " ", "s", "e", "r", "v", "i", "c", "e", "s">>>>
       [] f = "grossProfit" ->
         <<<<"g", "r", "o", "s", "s", " ", "p", "r", "o", "f", "i", "t">>, <<"g", "r", "o", "s", "s", " ", "i", "n", "c", "o", "m", "e">>, <<"g", "r", "o", "s", "s", " ", "m", "a", "r", "g", "i", "n">>,
         <<"g", "r", "o", "s", "s", " ", "e", "a", "r", "n", "i", "n", "g", "s">>>>
       [] f = "operatingExpenses" ->
         <<<<"o", "p", "e", "r", "a", "t", "i", "n", "g", " ", "e", "x", "p", "e", "n", "s", "e", "s">>, <<"o", "p", "e", "x">>, <<"o", "p", "e", "r", "a", "t", "i", "n", "g", " ", "c", "o", "s", "t", "s">>,
         <<"t", "o", "t", "a", "l", " ", "o", "p", "e", "r", "a", "t", "i", "n", "g", " ", "e", "x", "p", "e", "n", "s", "e", "s">>, <<"s", "e", "l", "l", "i", "n", "g", " ", "g", "e", "n", "e", "r", "a", "l", " ", "a", "d", "m", "i", "n", "i", "s", "t", "r", "a", "t", "i", "v", "e">>,
         <<"s", "g", "a">>, <<"a", "d", "m", "i", "n", "i", "s", "t", "r", "a", "t", "i", "v", "e", " ", "e", "x", "p", "e", "n", "s", "e", "s">>, <<"s", "e", "l", "l", "i", "n", "g", " ", "e", "x", "p", "e", "n", "s", "e", "s">>,
         <<"g", "e", "n", "e", "r", "a", "l", " ", "e", "x", "p", "e", "n", "s", "e", "s">>>>
       [] f = "operatingIncome" ->
         <<<<"o", "p", "e", "r", "a", "t", "i", "n", "g", " ", "i", "n", "c", "o", "m", "e">>, <<"o", "p", "e", "r", "a", "t", "i", "n", "g", " ", "p", "r", "o", "f", "i", "t">>, <<"e", "b", "i", "t">>,
         <<"e", "a", "r", "n", "i", "n", "g", "s", " ", "b", "e", "f", "o", "r", "e", " ", "i", "n", "t", "e", "r", "e", "s", "t", " ", "a", "n", "d", " ", "t", "a", "x">>, <<"o", "p", "e", "r", "a", "t", "i", "n", "g", " ", "e", "a", "r", "n", "i", "n", "g", "s">>,
         <<"o", "p", "e", "r", "a", "t", "i", "n", "g", " ", "r", "e", "s", "u", "l", "t">>>>
       [] f = "netIncome" ->
         <<<<"n", "e", "t", " ", "i", "n", "c", "o", "m", "e">>, <<"n", "e", "t", " ", "p", "r", "o", "f", "i", "t">>, <<"n", "e", "t", " ", "e", "a", "r", "n", "i", "n", "g", "s">>, <<"n", "e", "t", " ", "r", "e", "s", "u", "l", "t">>,
         <<"p", "r", "o", "f", "i", "t", " ", "a", "f", "t", "e", "r", " ", "t", "a", "x">>, <<"n", "e", "t", " ", "p", "r", "o", "f", "i", "t", " ", "a", "f", "t", "e", "r", " ", "t", "a", "x">>, <<"b", "o", "t", "t", "o", "m", " ", "l", "i", "n", "e">>>>
       [] f = "totalAssets" ->
         <<<<"t", "o", "t", "a", "l", " ", "a", "s", "s", "e", "t", "s">>, <<"t", "o", "t", "a", "l", " ", "c", "u", "r", "r", "e", "n", "t", " ", "a", "s", "s", "e", "t", "s">>, <<"a", "s", "s", "e", "t", "s">>,
         <<"t", "o", "t", "a", "l", " ", "a", "s", "s", "e", "t">>>>
       [] f = "totalLiabilities" ->
         <<<<"t", "o", "t", "a", "l", " ", "l", "i", "a", "b", "i", "l", "i", "t", "i", "e", "s">>, <<"t", "o", "t", "a", "l", " ", "c", "u", "r", "r", "e", "n", "t", " ", "l", "i", "a", "b", "i", "l", "i", "t", "i", "e", "s">>, <<"l", "i", "a", "b", "i", "l", "i", "t", "i", "e", "s">>,
         <<"t", "o", "t", "a", "l", " ", "l", "i", "a", "b", "i", "l", "i", "t", "y">>>>
       [] f = "totalEquity" ->
         <<<<"t", "o", "t", "a", "l", " ", "e", "q", "u", "i", "t", "y">>, <<"s", "h", "a", "r", "e", "h", "o", "l", "d", "e", "r", "s", " ", "e", "q", "u", "i", "t", "y">>, <<"s", "t", "o", "c", "k", "h", "o", "l", "d", "e", "r", "s", " ", "e", "q", "u", "i", "t", "y">>,
         <<"o", "w", "n", "e", "r", " ", "e", "q", "u", "i", "t", "y">>, <<"s", "h", "a", "r", "e", " ", "c", "a", "p", "i", "t", "a", "l">>, <<"r", "e", "t", "a", "i", "n", "e", "d", " ", "e", "a", "r", "n", "i", "n", "g", "s">>,
         <<"t", "o", "t", "a", "l", " ", "s", "h", "a", "r", "e", "h", "o", "l", "d", "e", "r", "s", " ", "e", "q", "u", "i", "t", "y">>>>
       [] f = "cash" ->
         <<<<"c", "a", "s", "h">>, <<"c", "a", "s", "h", " ", "a", "n", "d", " ", "c", "a", "s", "h", " ", "e", "q", "u", "i", "v", "a", "l", "e", "n", "t", "s">>, <<"c", "a", "s", "h", " ", "e", "q", "u", "i", "v", "a", "l", "e", "n", "t", "s">>,
         <<"c", "a", "s", "h", " ", "o", "n", " ", "h", "a", "n", "d">>, <<"c", "a", "s", "h", " ", "a", "n", "d", " ", "b", "a", "n", "k">>, <<"p", "e", "t", "t", "y", " ", "c", "a", "s", "h">>>>
       [] f = "accountsReceivable" ->
         <<<<"a", "c", "c", "o", "u", "n", "t", "s", " ", "r", "e", "c", "e", "i", "v", "a", "b", "l", "e">>, <<"r", "e", "c", "e", "i", "v", "a", "b", "l", "e", "s">>, <<"t", "r", "a", "d", "e", " ", "r", "e", "c", "e", "i", "v", "a", "b", "l", "e", "s">>,
         <<"c", "u", "s", "t", "o", "m", "e", "r", " ", "r", "e", "c", "e", "i", "v", "a", "b", "l", "e", "s">>, <<"a", "c", "c", "o", "u", "n", "t", "s", " ", "r", "e", "c", "e", "i", "v", "a", "b", "l", "e", " ", "n", "e", "t">>,
         <<"n", "e", "t", " ", "r", "e", "c", "e", "i", "v", "a", "b", "l", "e", "s">>>>
       [] f = "inventory" ->
         <<<<"i", "n", "v", "e", "n", "t", "o", "r", "y">>, <<"i", "n", "v", "e", "n", "t", "o", "r", "i", "e", "s">>, <<"s", "t", "o", "c", "k">>, <<"m", "e", "r", "c", "h", "a", "n", "d", "i", "s", "e">>,
         <<"r", "a", "w", " ", "m", "a", "t", "e", "r", "i", "a", "l", "s">>, <<"w", "o", "r", "k", " ", "i", "n", " ", "p", "r", "o", "g", "r", "e", "s", "s">>, <<"f", "i", "n", "i", "s", "h", "e", "d", " ", "g", "o", "o", "d", "s">>>>
       [] f = "propertyPlantEquipment" ->
         <<<<"p", "r", "o", "p", "e", "r", "t", "y", " ", "p", "l", "a", "n", "t", " ", "a", "n", "d", " ", "e", "q", "u", "i", "p", "m", "e", "n", "t">>, <<"p", "p", "e">>, <<"f", "i", "x", "e", "d", " ", "a", "s", "s", "e", "t", "s">>,
         <<"t", "a", "n", "g", "i", "b", "l", "e", " ", "a", "s", "s", "e", "t", "s">>, <<"p", "r", "o", "p", "e", "r", "t", "y", " ", "e", "q", "u", "i", "p", "m", "e", "n", "t">>, <<"p", "l", "a", "n", "t", " ", "e", "q", "u", "i", "p", "m", "e", "n", "t">>,
         <<"c", "a", "p", "i", "t", "a", "l", " ", "a", "s", "s", "e", "t", "s">>>>
       [] f = "accountsPayable" ->
         <<<<"a", "c", "c", "o", "u", "n", "t", "s", " ", "p", "a", "y", "a", "b", "l", "e">>, <<"p", "a", "y", "a", "b", "l", "e", "s">>, <<"t", "r", "a", "d", "e", " ", "p", "a", "y", "a", "b", "l", "e", "s">>,
         <<"v", "e", "n", "d", "o", "r", " ", "p", "a", "y", "a", "b", "l", "e", "s">>, <<"a", "c", "c", "o", "u", "n", "t", "s", " ", "p", "a", "y", "a", "b", "l", "e", " ", "n", "e", "t">>, <<"n", "e", "t", " ", "p", "a", "y", "a", "b", "l", "e", "s">>>>
       [] f = "longTermDebt" ->
         <<<<"l", "o", "n", "g", "-", "t", "e", "r", "m", " ", "d", "e", "b", "t">>, <<"l", "o", "n", "g", " ", "t", "e", "r", "m", " ", "d", "e", "b", "t">>, <<"l", "o", "n", "g", "-", "t", "e", "r", "m", " ", "l", "i", "a", "b", "i", "l", "i", "t", "i", "e", "s">>,
         <<"l", "o", "n", "g", " ", "t", "e", "r", "m", " ", "l", "i", "a", "b", "i", "l", "i", "t", "i", "e", "s">>, <<"n", "o", "n", "-", "c", "u", "r", "r", "e", "n", "t", " ", "d", "e", "b", "t">>, <<"d", "e", "b", "t">>,
         <<"b", "o", "r", "r", "o", "w", "i", "n", "g", "s">>, <<"l", "o", "a", "n", "s", " ", "p", "a", "y", "a", "b", "l", "e">>>>]

\* AdjacentValue that looks to the left before it looks to the right
AdjacentValueLeftFirst(row, c) ==
  LET Same(right) == IF right # Whole(0) THEN right ELSE parseValue(row[c])
      Right(left) ==
        IF left # Whole(0) THEN left
        ELSE Same(IF c + 1 <= Len(row) THEN parseValue(row[c + 1]) ELSE Whole(0))
  IN Right(IF c > 1 THEN parseValue(row[c - 1]) ELSE Whole(0))

\* the value next to the label cell c of row: right, then left, then the cell itself
AdjacentValue(row, c) ==
  LET Same(left) == IF left # Whole(0) THEN left ELSE parseValue(row[c])
      Left(right) ==
        IF right # Whole(0) THEN right
        ELSE Same(IF c > 1 THEN parseValue(row[c - 1]) ELSE Whole(0))
  IN Left(IF c + 1 <= Len(row) THEN parseValue(row[c + 1]) ELSE Whole(0))

\* ScanCell that also overwrites on a tie in magnitude
ScanCellOnTie(fd, row, c) ==
  LET Match(cellValue, value) ==
        IF cellValue = <<>> THEN fd
        ELSE [f \in Fields |->
                IF /\ f \in MetricFields
                   /\ \E i \in 1..Len(patterns[f]) : includes(cellValue, patterns[f][i])
                   /\ value # Whole(0)
                   /\ (fd[f] = Whole(0) \/ Abs(value.n) >= Abs(fd[f].n))
                THEN value ELSE fd[f]]
  IN Match(trim(toLowerCase(row[c])), AdjacentValue(row, c))

\* the label scan of one cell: every field one of whose terms the cell contains
\* takes the value when it is non-zero and the field is 0 or smaller in magnitude
ScanCell(fd, row, c) ==
  LET Match(cellValue, value) ==
        IF cellValue = <<>> THEN fd
        ELSE [f \in Fields |->
                IF /\ f \in MetricFields
                   /\ \E i \in 1..Len(patterns[f]) : includes(cellValue, patterns[f][i])
                   /\ value # Whole(0)
                   /\ (fd[f] = Whole(0) \/ Abs(value.n) > Abs(fd[f].n))
                THEN value ELSE fd[f]]
  IN Match(trim(toLowerCase(row[c])), AdjacentValue(row, c))

\* the label scan of the cells c, c+1, ... of rows r, r+1, ...
RECURSIVE ScanFrom(_, _, _, _)
ScanFrom(fd, rows, r, c) ==
  IF r > Len(rows) THEN fd
  ELSE IF c > Len(rows[r]) THEN ScanFrom(fd, rows, r + 1, 1)
  ELSE ScanFrom(ScanCell(fd, rows[r], c), rows, r, c + 1)

\* row.map(cell => String(cell || '')).join(' ')
RECURSIVE JoinCells(_)
JoinCells(row) ==
  IF row = <<>> THEN <<>>
  ELSE IF Len(row) = 1 THEN row[1]
  ELSE row[1] \o <<" ">> \o JoinCells(Tail(row))

\* TotalsCell that assigns a field whatever it holds
TotalsCellOverwriting(fd, rowText, value) ==
  IF ~Positive(value) THEN fd
  ELSE IF includes(rowText, <<"r", "e", "v", "e", "n", "u", "e">>) \/ includes(rowText, <<"s", "a", "l", "e", "s">>)
  THEN [fd EXCEPT !.revenue = value]
  ELSE IF includes(rowText, <<"a", "s", "s", "e", "t", "s">>)
  THEN [fd EXCEPT !.totalAssets = value]
  ELSE IF includes(rowText, <<"l", "i", "a", "b", "i", "l", "i", "t", "i", "e", "s">>)
  THEN [fd EXCEPT !.totalLiabilities = value]
  ELSE IF includes(rowText, <<"e", "q", "u", "i", "t", "y">>)
  THEN [fd EXCEPT !.totalEquity = value]
  ELSE fd

\* the body of the total/subtotal loop for one cell of a row with text rowText
TotalsCell(fd, rowText, value) ==
  IF ~Positive(value) THEN fd
  ELSE IF includes(rowText, <<"r", "e", "v", "e", "n", "u", "e">>) \/ includes(rowText, <<"s", "a", "l", "e", "s">>)
  THEN (IF fd.revenue = Whole(0) THEN [fd EXCEPT !.revenue = value] ELSE fd)
  ELSE IF includes(rowText, <<"a", "s", "s", "e", "t", "s">>)
  THEN (IF fd.totalAssets = Whole(0) THEN [fd EXCEPT !.totalAssets = value] ELSE fd)
  ELSE IF includes(rowText, <<"l", "i", "a", "b", "i", "l", "i", "t", "i", "e", "s">>)
  THEN (IF fd.totalLiabilities = Whole(0)
        THEN [fd EXCEPT !.totalLiabilities = value] ELSE fd)
  ELSE IF includes(rowText, <<"e", "q", "u", "i", "t", "y">>)
  THEN (IF fd.totalEquity = Whole(0) THEN [fd EXCEPT !.totalEquity = value] ELSE fd)
  ELSE fd

RECURSIVE TotalsFrom(_, _, _, _)
TotalsFrom(fd, rows, r, c) ==
  LET Row(rowText) ==
        IF c > Len(rows[r])
           \/ ~(includes(rowText, <<"t", "o", "t", "a", "l">>) \/ includes(rowText, <<"s", "u", "b", "t", "o", "t", "a", "l">>))
        THEN TotalsFrom(fd, rows, r + 1, 1)
        ELSE TotalsFrom(TotalsCell(fd, rowText, parseValue(rows[r][c])), rows, r, c + 1)
  IN IF r > Len(rows) THEN fd ELSE Row(toLowerCase(JoinCells(rows[r])))

\* LargeCell that takes every number above 1000
LargeCellAbove1000(fd, value) ==
  IF Positive(Minus(value, Whole(1000))) /\ fd.revenue = Whole(0)
  THEN [fd EXCEPT !.revenue = value]
  ELSE fd

\* the large-number fallback for one cell
LargeCell(fd, value) ==
  IF Positive(Minus(value, Whole(1000)))
     /\ fd.revenue = Whole(0) /\ Positive(Minus(value, Whole(10000)))
  THEN [fd EXCEPT !.revenue = value]
  ELSE fd

RECURSIVE LargeFrom(_, _, _, _)
LargeFrom(fd, rows, r, c) ==
  IF r > Len(rows) THEN fd
  ELSE IF c > Len(rows[r]) THEN LargeFrom(fd, rows, r + 1, 1)
  ELSE LargeFrom(LargeCell(fd, parseValue(rows[r][c])), rows, r, c + 1)

\* "Fallback: Look for any large numbers", entered only with no revenue and no assets
LargeNumbers(fd, rows) ==
  IF fd.revenue = Whole(0) /\ fd.totalAssets = Whole(0)
  THEN LargeFrom(fd, rows, 1, 1)
  ELSE fd

\* DeriveGrossProfit with the operands exchanged
DeriveGrossProfitExchanged(fd) ==
  IF fd.grossProfit = Whole(0) /\ Positive(fd.revenue) /\ Positive(fd.costOfGoodsSold)
  THEN [fd EXCEPT !.grossProfit = Minus(fd.costOfGoodsSold, fd.revenue)]
  ELSE fd

\* "Calculate derived values if not found": three rules, in this order
DeriveGrossProfit(fd) ==
  IF fd.grossProfit = Whole(0) /\ Positive(fd.revenue) /\ Positive(fd.costOfGoodsSold)
  THEN [fd EXCEPT !.grossProfit = Minus(fd.revenue, fd.costOfGoodsSold)]
  ELSE fd

DeriveOperatingIncome(fd) ==
  IF fd.operatingIncome = Whole(0) /\ Positive(fd.grossProfit)
     /\ Positive(fd.operatingExpenses)
  THEN [fd EXCEPT !.operatingIncome = Minus(fd.grossProfit, fd.operatingExpenses)]
  ELSE fd

\* DeriveTotalEquity that makes assets = liabilities + equity hold
DeriveTotalEquityReconciling(fd) ==
  IF Positive(fd.totalAssets) /\ Positive(fd.totalLiabilities)
  THEN [fd EXCEPT !.totalEquity = Minus(fd.totalAssets, fd.totalLiabilities)]
  ELSE fd

DeriveTotalEquity(fd) ==
  IF fd.totalEquity = Whole(0) /\ Positive(fd.totalAssets)
     /\ Positive(fd.totalLiabilities)
  THEN [fd EXCEPT !.totalEquity = Minus(fd.totalAssets, fd.totalLiabilities)]
  ELSE fd

DerivedValues(fd) == DeriveTotalEquity(DeriveOperatingIncome(DeriveGrossProfit(fd)))

\* "Validate and clean up the data": Math.abs of every negative field but year
CleanUpSigns(fd) ==
  [f \in Fields |->
     IF f # "year" /\ Negative(fd[f]) THEN Num(Abs(fd[f].n)) ELSE fd[f]]


\* calculateSheetConfidence without the totalAssets check
calculateSheetConfidenceNoAssets(d) ==
  LET Check(f, points) == IF Positive(d[f]) THEN points ELSE 0
      Capped(sum, totalChecks) ==
        IF totalChecks > 0 THEN Whole(Min({sum, 100})) ELSE Whole(0)
  IN Capped(Check("revenue", 20) + (IF NonZero(d.netIncome) THEN 20 ELSE 0)
              + Check("totalLiabilities", 15)
              + Check("cash", 10) + Check("accountsReceivable", 10)
              + Check("inventory", 10),
            Check("revenue", 1) + (IF NonZero(d.netIncome) THEN 1 ELSE 0)
              + Check("totalLiabilities", 1)
              + Check("cash", 1) + Check("accountsReceivable", 1)
              + Check("inventory", 1))

\* calculateConfidence of the route: the weighted presence check, capped at 100,
\* and 0 when no check passed
calculateSheetConfidence(d) ==
  LET Check(f, points) == IF Positive(d[f]) THEN points ELSE 0
      Capped(sum, totalChecks) ==
        IF totalChecks > 0 THEN Whole(Min({sum, 100})) ELSE Whole(0)
  IN Capped(Check("revenue", 20) + (IF NonZero(d.netIncome) THEN 20 ELSE 0)
              + Check("totalAssets", 15) + Check("totalLiabilities", 15)
              + Check("cash", 10) + Check("accountsReceivable", 10)
              + Check("inventory", 10),
            Check("revenue", 1) + (IF NonZero(d.netIncome) THEN 1 ELSE 0)
              + Check("totalAssets", 1) + Check("totalLiabilities", 1)
              + Check("cash", 1) + Check("accountsReceivable", 1)
              + Check("inventory", 1))

financialKeywords ==
  {<<"r", "e", "v", "e", "n", "u", "e">>, <<"s", "a", "l", "e", "s">>, <<"i", "n", "c", "o", "m", "e">>, <<"a", "s", "s", "e", "t", "s">>, <<"l", "i", "a", "b", "i", "l", "i", "t", "i", "e", "s">>, <<"e", "q", "u", "i", "t", "y">>,
   <<"c", "a", "s", "h">>, <<"p", "r", "o", "f", "i", "t">>, <<"e", "x", "p", "e", "n", "s", "e", "s">>, <<"c", "o", "s", "t">>, <<"d", "e", "b", "t">>, <<"r", "e", "c", "e", "i", "v", "a", "b", "l", "e">>, <<"p", "a", "y", "a", "b", "l", "e">>}

\* one point for every keyword of every non-empty row whose text has it
RECURSIVE scoreSheetForFinancialData(_)
scoreSheetForFinancialData(sheetData) ==
  LET Row(rowText) == Cardinality({k \in financialKeywords : includes(rowText, k)})
  IN IF sheetData = <<>> THEN 0
     ELSE (IF Head(sheetData) = <<>> THEN 0
           ELSE Row(toLowerCase(JoinCells(Head(sheetData)))))
          + scoreSheetForFinancialData(Tail(sheetData))

\* bestSheet after the sheets i, i+1, ... went through the loop of parseExcelFile:
\* every sheet of score above 0 takes the place of the one before
RECURSIVE bestSheet(_, _, _)
bestSheet(sheets, i, best) ==
  IF i > Len(sheets) THEN best
  ELSE bestSheet(sheets, i + 1,
                 IF scoreSheetForFinancialData(sheets[i]) > 0 THEN i ELSE best)

\* bestSheetData: the rows of bestSheet, which starts as SheetNames[0]
bestSheetData(sheets) == sheets[bestSheet(sheets, 1, 1)]
----------------------------------------------------------------------------
(* Inputs of the model *)

Ops == {"parseFinancialDataFromText", "parseProductsWithAI",
        "extractFinancialDataFromExcel", "AIFinancialParser.calculateConfidence",
        "calculateConfidence"}

\* process.env.OPENAI_API_KEY: unset, empty, the constructor's placeholder, a key
EnvPool == {Undefined, Str(<<>>), Str(<<"d", "u", "m", "m", "y", "-", "k", "e", "y">>), Str(<<"s", "k", "-", "l", "i", "v", "e">>)}

\* all sequences over S of length 0..n
SeqsUpTo(S, n) == UNION {[1..k -> S] : k \in 0..n}

FinancialLinePool ==
  {<<"A", "c", "m", "e", " ", "C", "o", "r", "p">>,
   <<"R", "e", "v", "e", "n", "u", "e", " ", "5", ",", "0", "0", "0">>,
   <<"C", "O", "G", "S", " ", "3", ",", "0", "0", "0", ".", "5", "0">>,
   <<"N", "e", "t", " ", "I", "n", "c", "o", "m", "e", " ", "(", "2", "5", "0", ")">>,
   <<"T", "o", "t", "a", "l", " ", "A", "s", "s", "e", "t", "s", " ", "1", "5", "0", "0", "0", "0", "0">>,
   <<"C", "a", "s", "h", " ", "$", "1", ",", "2", "0", "0">>}

ProductLinePool ==
  {<<"M", "e", "t", "a", "l", " ", "T", "h", "e", "r", "m", "o", "s", " ", "-", " ", "1", "0", "0", " ", "U", "S", "D", " ", "-", " ", "7", " ", "P", "i", "e", "c", "e", "s">>,
   <<"M", "u", "g", " ">> \o <<EnDash>> \o <<" ">> \o <<EuroSign>> \o <<"4", ".", "5", "0", " ">> \o <<EmDash>> \o <<" ", "1", "2">>,
   <<"C", "h", "a", "r", "g", "e", "r", "s", " ", "$", "1", "0", "0", " ", "3", "0", " ", "p", "c", "s">>,
   <<"L", "a", "m", "p", " ", "3", " ", "u", "n", "i", "t", "s">>,
   <<"h", "e", "l", "l", "o", " ", "w", "o", "r", "l", "d">>,
   <<>>}

\* text.split('\n') has at least one element
FinancialTexts == SeqsUpTo(FinancialLinePool, MaxLines) \ {<<>>}
ProductTexts == SeqsUpTo(ProductLinePool, MaxLines) \ {<<>>}

RowPool ==
  {<<<<"A", "c", "m", "e", " ", "C", "o", "r", "p">>, <<"2", "0", "2", "4">>>>,
   <<<<"R", "e", "v", "e", "n", "u", "e">>, <<"1", "0", "0">>>>,
   <<<<"R", "e", "v", "e", "n", "u", "e">>, <<"1", ",", "0", "0", "0">>>>,
   <<<<"R", "e", "v", "e", "n", "u", "e">>, <<"(", "5", "0", "0", ")">>>>,
   <<<<"T", "o", "t", "a", "l", " ", "R", "e", "v", "e", "n", "u", "e">>, <<"5", "0", "0">>>>,
   <<<<"C", "o", "s", "t", " ", "o", "f", " ", "G", "o", "o", "d", "s", " ", "S", "o", "l", "d">>, <<"6", "0", "0">>>>,
   <<<<"C", "O", "G", "S">>, <<"2", ",", "5", "0", "0">>>>,
   <<<<"O", "p", "e", "r", "a", "t", "i", "n", "g", " ", "E", "x", "p", "e", "n", "s", "e", "s">>, <<"1", "5", "0">>>>,
   <<<<"N", "e", "t", " ", "I", "n", "c", "o", "m", "e">>, <<"(", "2", "5", "0", ")">>>>,
   <<<<"T", "o", "t", "a", "l", " ", "A", "s", "s", "e", "t", "s">>, <<"$", "9", ",", "0", "0", "0", ".", "0", "0">>>>,
   <<<<"T", "o", "t", "a", "l", " ", "L", "i", "a", "b", "i", "l", "i", "t", "i", "e", "s">>, <<"1", "2", ",", "0", "0", "0">>>>,
   <<<<>>, <<"T", "o", "t", "a", "l", " ", "E", "q", "u", "i", "t", "y">>, <<>>>>,
   <<<<"E", "q", "u", "i", "t", "y", " ", "t", "o", "t", "a", "l">>, <<"7", "0", "0">>>>,
   <<<<"E", "q", "u", "i", "t", "y", " ", "a", "n", "d", " ", "l", "i", "a", "b", "i", "l", "i", "t", "i", "e", "s">>, <<"t", "o", "t", "a", "l">>, <<"8", "0", "0">>>>,
   <<<<"N", "o", "t", "e", "s">>, <<"1", "5", ",", "0", "0", "0">>, <<"5", "0", "%">>>>,
   <<<<"S", "a", "l", "e", "s">>, <<"1", "e", "9", "9", "9">>>>,
   <<<<"C", "O", "G", "S">>, <<"1", "e", "9", "9", "9">>>>}

\* rows of the tables of one row: a label with a value to its right, to its
\* left or in itself, and a row of several labels, each with its value
LabelRowPool ==
  {<<<<"2", "0", "0">>, <<"C", "a", "s", "h">>, <<"9", "0", "0">>>>,
   <<<<"2", "0", "0">>, <<"C", "a", "s", "h">>, <<"n", "/", "a">>>>,
   <<<<"C", "a", "s", "h", " ", "3", "0", "0">>>>,
   <<<<"T", "o", "t", "a", "l", " ", "A", "s", "s", "e", "t", "s">>, <<"9", "0", "0">>, <<"T", "o", "t", "a", "l", " ", "L", "i", "a", "b", "i", "l", "i", "t", "i", "e", "s">>, <<"4", "0", "0">>, <<"T", "o", "t", "a", "l", " ", "E", "q", "u", "i", "t", "y">>, <<"1", "0", "0">>>>}

Tables == SeqsUpTo(RowPool, MaxRows) \cup {<<row>> : row \in LabelRowPool}

\* sheets of the workbooks that have several
SheetPool ==
  {<<<<<<"A", "c", "m", "e", " ", "C", "o", "r", "p">>, <<"2", "0", "2", "4">>>>>>,
   <<<<<<"N", "o", "t", "e", "s">>, <<"1", "5", ",", "0", "0", "0">>, <<"5", "0", "%">>>>>>,
   <<<<<<"R", "e", "v", "e", "n", "u", "e">>, <<"1", ",", "0", "0", "0">>>>>>,
   <<<<<<"T", "o", "t", "a", "l", " ", "A", "s", "s", "e", "t", "s">>, <<"$", "9", ",", "0", "0", "0", ".", "0", "0">>>>>>,
   <<<<<<"R", "e", "v", "e", "n", "u", "e">>, <<"1", ",", "0", "0", "0">>>>, <<<<"N", "e", "t", " ", "I", "n", "c", "o", "m", "e">>, <<"(", "2", "5", "0", ")">>>>>>}

\* a workbook has at least one sheet
Workbooks ==
  {<<t>> : t \in Tables} \cup (SeqsUpTo(SheetPool, MaxSheets) \ SeqsUpTo(SheetPool, 1))

\* records with at most one field away from its default, a full one, and the
\* records with any of the scored fields at 1200
ScoreInputs ==
  {getDefaultFinancialData, [f \in Fields |-> Whole(1000)]}
  \cup {[f \in Fields |-> IF f \in set THEN Whole(1200) ELSE getDefaultFinancialData[f]] :
          set \in SUBSET {"revenue", "netIncome", "totalAssets", "totalLiabilities",
                          "cash", "accountsReceivable", "inventory"}}
  \cup {[getDefaultFinancialData EXCEPT ![f] = v] :
          f \in MetricFields, v \in {Whole(-5), Num(1), Whole(1200), Infinity, NaN}}

EmptyObject == Obj(<<>>)

\* values a model may put in a JSON field
JsonFieldValues ==
  {Null, Whole(0), Whole(1200), Num(-25050), Infinity, Str(<<"1", ",", "2", "0", "0">>),
   Str(<<"$", "3", ",", "0", "0", "0", ".", "5", "0">>), Str(<<"a", "b", "c">>), Str(<<>>), Bool(TRUE), EmptyObject}

JsonStatementTypes ==
  {Undefined, Null, Str(<<"i", "n", "c", "o", "m", "e">>), Str(<<"b", "a", "l", "a", "n", "c", "e">>), Str(<<"c", "a", "s", "h", "f", "l", "o", "w">>),
   Str(<<"e", "q", "u", "i", "t", "y">>), Whole(2), EmptyObject}

JsonConfidences ==
  {Undefined, Null, Whole(-5), Whole(0), Whole(85), Whole(150), Infinity,
   Str(<<"9", "0">>), Str(<<"h", "i", "g", "h">>), Bool(TRUE), EmptyObject}

FullJsonData ==
  Obj([f \in Fields |->
         CASE f = "year" -> Whole(2023)
           [] f = "revenue" -> Whole(1000)
           [] f = "costOfGoodsSold" -> Whole(600)
           [] f = "netIncome" -> Whole(-250)
           [] OTHER -> Whole(10)])

JsonDatas ==
  {Undefined, Null, Str(<<"n", "/", "a">>), EmptyObject, FullJsonData}
  \cup {Obj([k \in {f} |-> v]) : f \in Fields, v \in JsonFieldValues}

BaseFinancialJson ==
  [companyName |-> Str(<<"A", "c", "m", "e">>), statementType |-> Str(<<"b", "a", "l", "a", "n", "c", "e">>),
   period |-> Str(<<"Q", "4", " ", "2", "0", "2", "3">>), data |-> FullJsonData, confidence |-> Whole(85)]

\* the objects JSON.parse may return for a financial completion
FinancialJsonPool ==
  {[BaseFinancialJson EXCEPT !.statementType = s, !.confidence = c] :
     s \in JsonStatementTypes, c \in JsonConfidences}
  \cup {[BaseFinancialJson EXCEPT !.data = d] : d \in JsonDatas}
  \cup {[BaseFinancialJson EXCEPT !.companyName = Undefined, !.period = Undefined,
                                  !.data = d] : d \in {Undefined, FullJsonData}}

BaseProductJson ==
  [name |-> Str(<<"P", "e", "n">>), price |-> Whole(100), quantity |-> Whole(7),
   currency |-> Str(<<"E", "U", "R">>)]

\* the elements a model may put in "products"
ProductJsonPool ==
  {Obj(BaseProductJson), Whole(5), Str(<<"P", "e", "n">>)}
  \cup {Obj([BaseProductJson EXCEPT !.name = v]) : v \in {Undefined, Str(<<>>), Whole(5)}}
  \cup {Obj([BaseProductJson EXCEPT !.price = v]) :
          v \in {Undefined, Null, Whole(0), Num(1250), Whole(-5), Str(<<"1", "2", ".", "5", "0">>),
                 Str(<<"a", "b", "c">>)}}
  \cup {Obj([BaseProductJson EXCEPT !.quantity = v]) :
          v \in {Undefined, Whole(0), Whole(-2), Num(250), Str(<<"3", " ", "p", "c", "s">>),
                 Str(<<"m", "a", "n", "y">>)}}
  \cup {Obj([BaseProductJson EXCEPT !.currency = v]) : v \in {Undefined, Str(<<"u", "s", "d">>)}}

JsonProductLists ==
  {Undefined, Null, Str(<<"n", "o", "n", "e">>), Whole(3), EmptyObject, Arr(<<>>), Arr(<<Null>>),
   Arr(<<Obj(BaseProductJson), Null>>)}
  \cup {Arr(<<p>>) : p \in ProductJsonPool}
  \cup {Arr(<<Obj(BaseProductJson), p>>) : p \in ProductJsonPool}

\* the objects JSON.parse may return for a product completion
ProductJsonPool2 ==
  {[products |-> l, confidence |-> Whole(85)] : l \in JsonProductLists}
  \cup {[products |-> l, confidence |-> c] :
          l \in {Undefined, Arr(<<Obj(BaseProductJson)>>)}, c \in JsonConfidences}

\* how a completion call can resolve: the call rejects ("throws"), the content is
\* missing or empty ("empty"), the text has no {...} block ("noblock"), the block
\* does not parse ("badjson"), or it parses to an object ("json")
FailedCompletions ==
  {[kind |-> "throws"], [kind |-> "empty"], [kind |-> "noblock"], [kind |-> "badjson"]}

FinancialCompletions ==
  FailedCompletions \cup {[kind |-> "json", parsed |-> Obj(o)] : o \in FinancialJsonPool}

ProductCompletions ==
  FailedCompletions \cup {[kind |-> "json", parsed |-> Obj(o)] : o \in ProductJsonPool2}

NoCompletion == [kind |-> "none"]
NoResult == [none |-> TRUE]

----------------------------------------------------------------------------
(* parseFinancialDataFromText *)

\* !process.env.OPENAI_API_KEY || process.env.OPENAI_API_KEY === 'dummy-key'
FinancialKeyMissing(e) == ~Truthy(e) \/ e = Str(<<"d", "u", "m", "m", "y", "-", "k", "e", "y">>)

\* what an invocation ends with: a returned value and the tier that made it...
Returned(value, from) == [thrown |-> FALSE, value |-> value, tier |-> from]
\* ... or an exception
Thrown == [thrown |-> TRUE, value |-> NoResult, tier |-> "none"]

\* the try block after the completion resolved to c: it throws when the call
\* rejected and on 'No response from AI', and else returns the parsed response
FinancialTry(lines, c) ==
  IF c.kind \in {"throws", "empty"} THEN Thrown
  ELSE Returned(FinancialModelResult(lines, c), "model")

\* FinancialCatch that rethrows
FinancialCatchRethrows(lines) == Thrown

\* the catch block
FinancialCatch(lines) == Returned(FinancialFallbackParsing(lines), "fallback")

\* try { ... } catch { ... } of parseFinancialDataFromText
FinancialOutcome(lines, c) ==
  LET Caught(try) == IF try.thrown THEN FinancialCatch(lines) ELSE try
  IN Caught(FinancialTry(lines, c))

\* the invocation ends with outcome
Ends(outcome) ==
  /\ result' = outcome.value
  /\ tier' = outcome.tier
  /\ thrown' = outcome.thrown
  /\ pc' = "done"

\* lines 42-65: the key check, then either the fallback or the completion call
StartFinancial ==
  /\ op = "parseFinancialDataFromText"
  /\ pc = "start"
  /\ IF FinancialKeyMissing(env)
     THEN /\ Ends(Returned(FinancialFallbackParsing(text), "fallback"))
          /\ calls' = calls
     ELSE /\ calls' = calls + 1
          /\ pc' = "awaiting"
          /\ UNCHANGED <<result, tier, thrown>>
  /\ UNCHANGED <<workbook, request, response, inv, chatbot, navigation, knowledgeBase,
                 op, env, text, data, completion, financialData,
                 confidenceScore>>

\* ResolveFinancial that repeats a rejected call once more
ResolveFinancialRetrying ==
  /\ op = "parseFinancialDataFromText"
  /\ pc = "awaiting"
  /\ \E c \in FinancialCompletions :
       /\ completion' = c
       /\ IF c.kind = "throws" /\ calls < 2
          THEN /\ calls' = calls + 1
               /\ UNCHANGED <<pc, result, tier, thrown>>
          ELSE /\ Ends(FinancialOutcome(text, c))
               /\ calls' = calls
  /\ UNCHANGED <<workbook, request, response, inv, chatbot, navigation, knowledgeBase,
                 op, env, text, data, financialData,
                 confidenceScore>>

\* lines 67-87: the awaited call settles and the invocation returns
ResolveFinancial ==
  /\ op = "parseFinancialDataFromText"
  /\ pc = "awaiting"
  /\ \E c \in FinancialCompletions :
       /\ completion' = c
       /\ Ends(FinancialOutcome(text, c))
  /\ UNCHANGED <<workbook, request, response, inv, chatbot, navigation, knowledgeBase,
                 op, env, text, data, calls, financialData,
                 confidenceScore>>

----------------------------------------------------------------------------
(* parseProductsWithAI *)

\* ProductKeyMissing that tests for undefined only
ProductKeyUndefined(e) == e = Undefined

\* !process.env.OPENAI_API_KEY
ProductKeyMissing(e) == ~Truthy(e)

\* ProductTry with JSON.parse in a try of its own that yields an empty object
ProductTryDefaultOnBadJson(lines, c) ==
  IF c.kind \in {"throws", "empty", "noblock"} THEN Thrown
  ELSE IF c.kind = "badjson" THEN Returned(ProductModelResult(lines, EmptyObject), "model")
  ELSE IF ProductsMapThrows(c.parsed) THEN Thrown
  ELSE Returned(ProductModelResult(lines, c.parsed), "model")

\* the try block after the completion resolved to c
ProductTry(lines, c) ==
  IF c.kind \in {"throws", "empty", "noblock", "badjson"} THEN Thrown
  ELSE IF ProductsMapThrows(c.parsed) THEN Thrown
  ELSE Returned(ProductModelResult(lines, c.parsed), "model")

\* the catch block
ProductCatch(lines) == Returned(ProductFallbackParsing(lines), "fallback")

\* try { ... } catch { ... } of parseProductsWithAI
ProductOutcome(lines, c) ==
  LET Caught(try) == IF try.thrown THEN ProductCatch(lines) ELSE try
  IN Caught(ProductTry(lines, c))

\* lines 68-130: the key check, then either the fallback or the completion call
StartProducts ==
  /\ op = "parseProductsWithAI"
  /\ pc = "start"
  /\ IF ProductKeyMissing(env)
     THEN /\ Ends(Returned(ProductFallbackParsing(text), "fallback"))
          /\ calls' = calls
     ELSE /\ calls' = calls + 1
          /\ pc' = "awaiting"
          /\ UNCHANGED <<result, tier, thrown>>
  /\ UNCHANGED <<workbook, request, response, inv, chatbot, navigation, knowledgeBase,
                 op, env, text, data, completion, financialData,
                 confidenceScore>>

\* lines 132-165: the awaited call settles and the invocation returns
ResolveProducts ==
  /\ op = "parseProductsWithAI"
  /\ pc = "awaiting"
  /\ \E c \in ProductCompletions :
       /\ completion' = c
       /\ Ends(ProductOutcome(text, c))
  /\ UNCHANGED <<workbook, request, response, inv, chatbot, navigation, knowledgeBase,
                 op, env, text, data, calls, financialData,
                 confidenceScore>>

----------------------------------------------------------------------------
(* parseExcelFile and its extractFinancialDataFromExcel, one action per pass *)

\* lines 112-140: the loop over the sheets leaves the grid to extract from
SelectSheet ==
  /\ op = "extractFinancialDataFromExcel"
  /\ pc = "select"
  /\ data' = bestSheetData(workbook)
  /\ pc' = "scan"
  /\ UNCHANGED <<workbook, request, response, inv, chatbot, navigation, knowledgeBase,
                 op, env, text, calls, completion,
                 thrown, result, tier, confidenceScore, financialData>>

ExcelStep(from, to, fd) ==
  /\ op = "extractFinancialDataFromExcel"
  /\ pc = from
  /\ financialData' = fd
  /\ pc' = to
  /\ UNCHANGED <<workbook, request, response, inv, chatbot, navigation, knowledgeBase,
                 op, env, text, data, calls, completion, thrown>>

\* lines 324-372
ScanLabels ==
  /\ ExcelStep("scan", "totals", ScanFrom(financialData, data, 1, 1))
  /\ UNCHANGED <<result, tier, confidenceScore>>

\* lines 374-412
InferTotals ==
  /\ ExcelStep("totals", "large", TotalsFrom(financialData, data, 1, 1))
  /\ UNCHANGED <<result, tier, confidenceScore>>

\* lines 414-435
LargeNumberFallback ==
  /\ ExcelStep("large", "derive", LargeNumbers(financialData, data))
  /\ UNCHANGED <<result, tier, confidenceScore>>

\* lines 437-448
DeriveValues ==
  /\ ExcelStep("derive", "clean", DerivedValues(financialData))
  /\ UNCHANGED <<result, tier, confidenceScore>>

\* lines 450-461, the return, and the confidence parseExcelFile puts next to it
CleanUpAndReturn ==
  /\ ExcelStep("clean", "done", CleanUpSigns(financialData))
  /\ result' = financialData'
  /\ tier' = "heuristic"
  /\ confidenceScore' = calculateSheetConfidence(financialData')

----------------------------------------------------------------------------
(* The two confidence scorers, each applied to a record *)

ScoreStatement ==
  /\ op = "AIFinancialParser.calculateConfidence"
  /\ pc = "start"
  /\ confidenceScore' = calculateConfidence(financialData)
  /\ pc' = "done"
  /\ UNCHANGED <<workbook, request, response, inv, chatbot, navigation, knowledgeBase,
                 op, env, text, data, calls, completion,
                 thrown, result, tier, financialData>>

ScoreSheet ==
  /\ op = "calculateConfidence"
  /\ pc = "start"
  /\ confidenceScore' = calculateSheetConfidence(financialData)
  /\ pc' = "done"
  /\ UNCHANGED <<workbook, request, response, inv, chatbot, navigation, knowledgeBase,
                 op, env, text, data, calls, completion,
                 thrown, result, tier, financialData>>

----------------------------------------------------------------------------
(* The two route handlers: POST of src/app/api/parse-pdf/route.ts and POST of  *)
(* src/app/api/parse-products/route.ts.  A buffer is known by what the         *)
(* decoders make of it: utf8 is buffer.toString('utf-8').split('\n'), sheets   *)
(* the sheets XLSX.read finds in it, each a name and the rows sheet_to_json    *)
(* gives, and readable is FALSE when XLSX.read throws.                         *)

Pdf == <<"a", "p", "p", "l", "i", "c", "a", "t", "i", "o", "n", "/", "p", "d", "f">>
Xlsx == <<"a", "p", "p", "l", "i", "c", "a", "t", "i", "o", "n", "/", "v", "n", "d", ".", "o", "p", "e", "n", "x", "m", "l", "f", "o", "r", "m", "a", "t", "s", "-", "o", "f", "f", "i", "c", "e", "d", "o", "c", "u", "m", "e", "n", "t", ".", "s", "p", "r", "e", "a", "d", "s", "h", "e", "e", "t", "m", "l", ".", "s", "h", "e", "e", "t">>
Xls == <<"a", "p", "p", "l", "i", "c", "a", "t", "i", "o", "n", "/", "v", "n", "d", ".", "m", "s", "-", "e", "x", "c", "e", "l">>
Csv == <<"t", "e", "x", "t", "/", "c", "s", "v">>
PlainText == <<"t", "e", "x", "t", "/", "p", "l", "a", "i", "n">>

\* file.type of the requests of the model
MediaTypes == {Pdf, Xlsx, Xls, Csv, PlainText, <<"i", "m", "a", "g", "e", "/", "p", "n", "g">>, <<>>}

BufferPool ==
  {[utf8 |-> <<<<"M", "e", "t", "a", "l", " ", "T", "h", "e", "r", "m", "o", "s", " ", "-", " ", "1", "0", "0", " ", "U", "S", "D", " ", "-", " ", "7", " ", "P", "i", "e", "c", "e", "s">>>>,
    readable |-> TRUE,
    sheets |-> << [name |-> <<"S", "h", "e", "e", "t", "1">>,
                   rows |-> <<<<<<"M", "e", "t", "a", "l", " ", "T", "h", "e", "r", "m", "o", "s", " ", "-", " ", "1", "0", "0", " ", "U", "S", "D", " ", "-", " ", "7", " ", "P", "i", "e", "c", "e", "s">>>>>>] >>],
   [utf8 |-> <<<<"R", "e", "v", "e", "n", "u", "e", ",", "5", "0", "0", "0">>, <<"P", "e", "n", "s", ",", "$", "2", " ", ",", "3", " ", "p", "c", "s">>>>,
    readable |-> TRUE,
    sheets |-> << [name |-> <<"S", "h", "e", "e", "t", "1">>,
                   rows |-> <<<<<<"R", "e", "v", "e", "n", "u", "e">>, <<"5", "0", "0", "0">>>>, <<<<"P", "e", "n", "s">>, <<"$", "2", " ">>, <<"3", " ", "p", "c", "s">>>>>>],
                  [name |-> <<"N", "o", "t", "e", "s">>, rows |-> <<<<<<>>, <<>>>>, <<>>>>] >>],
   [utf8 |-> <<<<"%", "P", "D", "F", "-", "1", ".", "4">>>>, readable |-> FALSE, sheets |-> <<>>]}

\* formData of a request to route: no file, or a file of some type and content
Requests(route) ==
  {[route |-> route, file |-> FALSE, type |-> <<>>, buffer |-> <<>>]}
  \cup {[route |-> route, file |-> TRUE, type |-> t, buffer |-> b] :
          t \in MediaTypes, b \in BufferPool}

\* row.map(cell => String(cell || '').trim()).join(' | ')
RECURSIVE JoinTrimmed(_)
JoinTrimmed(row) ==
  IF row = <<>> THEN <<>>
  ELSE IF Len(row) = 1 THEN trim(row[1])
  ELSE trim(row[1]) \o <<" ", "|", " ">> \o JoinTrimmed(Tail(row))

\* the lines the loop over the rows of one sheet adds after the sheet's header
RECURSIVE RowLines(_)
RowLines(rows) ==
  LET Line(rowText) == IF trim(rowText) # <<>> THEN <<rowText>> ELSE <<>>
  IN IF rows = <<>> THEN <<>>
     ELSE (IF Head(rows) # <<>> THEN Line(JoinTrimmed(Head(rows))) ELSE <<>>)
          \o RowLines(Tail(rows))

\* allText.split('\n') after the loop over the sheets: every sheet adds a line
\* break, its header, and its rows with a line break after each
RECURSIVE SheetLines(_)
SheetLines(sheets) ==
  IF sheets = <<>> THEN <<>>
  ELSE <<<<"=", "=", "=", " ", "S", "h", "e", "e", "t", ":", " ">> \o Head(sheets).name \o <<" ", "=", "=", "=">>>>
       \o RowLines(Head(sheets).rows) \o <<<<>>>> \o SheetLines(Tail(sheets))

\* parseExcelFileToText of the financial route: the text, or an exception
parseExcelFileToText(buffer) ==
  IF buffer.readable
  THEN [thrown |-> FALSE, lines |-> <<<<>>>> \o SheetLines(buffer.sheets)]
  ELSE [thrown |-> TRUE, lines |-> <<>>]

\* parseFileToText of the product route
parseFileToText(buffer, fileType) ==
  IF fileType = Csv \/ includes(fileType, <<"s", "p", "r", "e", "a", "d", "s", "h", "e", "e", "t">>) \/ includes(fileType, <<"e", "x", "c", "e", "l">>)
  THEN (IF buffer.readable
        THEN [thrown |-> FALSE, lines |-> <<<<>>>> \o SheetLines(buffer.sheets)]
        ELSE [thrown |-> TRUE, lines |-> <<>>])
  ELSE [thrown |-> FALSE, lines |-> buffer.utf8]

supportedTypes == {Pdf, Xlsx, Xls, Csv}

\* supportedTypes of the product route, without text/plain
supportedProductTypesNoText == {Pdf, Xlsx, Xls, Csv}

\* supportedTypes of the product route
supportedProductTypes == {Pdf, Xlsx, Xls, Csv, PlainText}

\* the record the financial route returns for every PDF
MockPdfData ==
  [companyName |-> Str(<<"A", "B", "C", " ", "C", "o", "r", "p", "o", "r", "a", "t", "i", "o", "n">>),
   statementType |-> Str(<<"i", "n", "c", "o", "m", "e">>),
   period |-> Str(<<"Q", "4", " ", "2", "0", "2", "3">>),
   data |-> [f \in Fields |->
               CASE f = "revenue" -> Whole(1500000)
                 [] f = "costOfGoodsSold" -> Whole(900000)
                 [] f = "grossProfit" -> Whole(600000)
                 [] f = "operatingExpenses" -> Whole(300000)
                 [] f = "operatingIncome" -> Whole(300000)
                 [] f = "netIncome" -> Whole(250000)
                 [] f = "totalAssets" -> Whole(950000)
                 [] f = "totalLiabilities" -> Whole(275000)
                 [] f = "totalEquity" -> Whole(675000)
                 [] f = "cash" -> Whole(150000)
                 [] f = "accountsReceivable" -> Whole(200000)
                 [] f = "inventory" -> Whole(100000)
                 [] f = "propertyPlantEquipment" -> Whole(500000)
                 [] f = "accountsPayable" -> Whole(75000)
                 [] f = "longTermDebt" -> Whole(200000)
                 [] f = "year" -> Whole(2023)],
   rawText |-> <<"M", "o", "c", "k", " ", "P", "D", "F", " ", "c", "o", "n", "t", "e", "n", "t", " ", "e", "x", "t", "r", "a", "c", "t", "e", "d", ".", ".", ".">>,
   confidence |-> Whole(85)]

\* NextResponse.json(body, { status })
Json(status, body) == [status |-> status, body |-> body]

\* FinancialBoundary that converts a PDF like a spreadsheet
FinancialBoundaryConvertingPdf(r) ==
  LET Text(excelData) ==
        IF excelData.thrown
        THEN (Json(500, [error |-> "Failed to parse file with AI"]))
        ELSE [lines |-> excelData.lines]
  IN IF ~r.file THEN (Json(400, [error |-> "No file provided"]))
     ELSE IF r.type \notin supportedTypes
     THEN (Json(400,
            [error |-> "Only PDF, Excel (.xlsx, .xls), and CSV files are supported"]))
     ELSE Text(parseExcelFileToText(r.buffer))

\* POST of the financial route, lines 550-607: the response, or the text it
\* hands to the parser
FinancialBoundary(r) ==
  LET Text(excelData) ==
        IF excelData.thrown
        THEN (Json(500, [error |-> "Failed to parse file with AI"]))
        ELSE [lines |-> excelData.lines]
  IN IF ~r.file THEN (Json(400, [error |-> "No file provided"]))
     ELSE IF r.type \notin supportedTypes
     THEN (Json(400,
            [error |-> "Only PDF, Excel (.xlsx, .xls), and CSV files are supported"]))
     ELSE IF r.type = Pdf THEN (Json(200, MockPdfData))
     ELSE Text(parseExcelFileToText(r.buffer))

\* POST of the product route, lines 256-281
ProductBoundary(r) ==
  LET Text(text_) ==
        IF text_.thrown
        THEN (Json(500, [error |-> "Failed to parse file"]))
        ELSE [lines |-> text_.lines]
  IN IF ~r.file THEN (Json(400, [error |-> "No file provided"]))
     ELSE IF r.type \notin supportedProductTypes
     THEN (Json(400,
            [error |-> "Only PDF, Excel (.xlsx, .xls), CSV, and text files are supported"]))
     ELSE Text(parseFileToText(r.buffer, r.type))

\* the handler takes the request up to its response or to the call of the parser
Receive(route, boundary) ==
  /\ request.route = route
  /\ pc = "request"
  /\ IF "status" \in DOMAIN boundary
     THEN /\ response' = boundary
          /\ pc' = "responded"
          /\ text' = text
     ELSE /\ text' = boundary.lines
          /\ pc' = "start"
          /\ response' = response
  /\ UNCHANGED <<workbook, request, inv, chatbot, navigation, knowledgeBase,
                 op, env, data, calls, completion, thrown, result,
                 tier, confidenceScore, financialData>>

ReceiveFinancial == Receive("parse-pdf", FinancialBoundary(request))

ReceiveProducts == Receive("parse-products", ProductBoundary(request))

\* NextResponse.json(parsedData) after the parser returned, or the 500 of the
\* catch when it threw
Respond(route, failure) ==
  /\ request.route = route
  /\ pc = "done"
  /\ response' = (IF thrown THEN Json(500, [error |-> failure]) ELSE Json(200, result))
  /\ pc' = "responded"
  /\ UNCHANGED <<workbook, request, inv, chatbot, navigation, knowledgeBase,
                 op, env, text, data, calls, completion, thrown,
                 result, tier, confidenceScore, financialData>>

RespondFinancial == Respond("parse-pdf", "Failed to parse file with AI")

RespondProducts == Respond("parse-products", "Failed to parse file")
----------------------------------------------------------------------------
(* Several invocations side by side.  Every call of parseFinancialDataFromText *)
(* has its own AIFinancialParser (POST makes one per request) and every call   *)
(* of parseProductsWithAI its own OpenAI client; what a call holds are its     *)
(* parameters and locals, one record of inv each.  process.env is the one      *)
(* thing the calls have in common, and no call writes it.                      *)

\* the operation and the text of a call
ConcurrentInputs ==
  {[op |-> "parseFinancialDataFromText", text |-> <<<<"R", "e", "v", "e", "n", "u", "e", " ", "5", ",", "0", "0", "0">>>>],
   [op |-> "parseFinancialDataFromText", text |-> <<<<"C", "a", "s", "h", " ", "$", "1", ",", "2", "0", "0">>>>],
   [op |-> "parseProductsWithAI", text |-> <<<<"M", "e", "t", "a", "l", " ", "T", "h", "e", "r", "m", "o", "s", " ", "-", " ", "1", "0", "0", " ", "U", "S", "D", " ", "-", " ", "7", " ", "P", "i", "e", "c", "e", "s">>>>],
   [op |-> "parseProductsWithAI", text |-> <<<<"L", "a", "m", "p", " ", "3", " ", "u", "n", "i", "t", "s">>>>]}

\* how the completion call of an operation can resolve
ConcurrentCompletions(o) ==
  {[kind |-> "throws"], [kind |-> "badjson"]}
  \cup {[kind |-> "json",
         parsed |-> IF o = "parseFinancialDataFromText"
                    THEN Obj(BaseFinancialJson)
                    ELSE Obj([products |-> Arr(<<Obj(BaseProductJson)>>),
                              confidence |-> Whole(85)])]}

\* the call ends with outcome
Ended(call, outcome) ==
  [call EXCEPT !.result = outcome.value, !.tier = outcome.tier,
               !.thrown = outcome.thrown, !.pc = "done"]

\* the key check of operation o
KeyMissing(o, e) ==
  IF o = "parseFinancialDataFromText" THEN FinancialKeyMissing(e)
  ELSE ProductKeyMissing(e)

\* what operation o ends with on lines: its fallback when it made no call, and
\* else the outcome of its try/catch for a call that resolved to c
OutcomeOf(o, lines, c) ==
  IF o = "parseFinancialDataFromText"
  THEN (IF c = NoCompletion THEN Returned(FinancialFallbackParsing(lines), "fallback")
        ELSE FinancialOutcome(lines, c))
  ELSE (IF c = NoCompletion THEN Returned(ProductFallbackParsing(lines), "fallback")
        ELSE ProductOutcome(lines, c))

\* TextOf with the text kept in one place for all calls, set by the last one
TextOfLastCall(i) == inv[MaxInvocations].text

\* the text parameter of call i
TextOf(i) == inv[i].text

\* call i runs up to its await, or to its return when no key is configured
StartCall(i) ==
  /\ inv[i].pc = "start"
  /\ inv' = [inv EXCEPT ![i] =
               IF KeyMissing(inv[i].op, env)
               THEN Ended(inv[i], OutcomeOf(inv[i].op, TextOf(i), NoCompletion))
               ELSE [inv[i] EXCEPT !.calls = inv[i].calls + 1, !.pc = "awaiting"]]
  /\ UNCHANGED <<chatbot, navigation, knowledgeBase,
                 op, env, text, data, pc, calls, completion, result, thrown, tier,
                 financialData, workbook, confidenceScore, request, response>>

\* the awaited completion of call i settles and the call returns
ResolveCall(i) ==
  /\ inv[i].pc = "awaiting"
  /\ \E c \in ConcurrentCompletions(inv[i].op) :
       inv' = [inv EXCEPT ![i] =
                 Ended([inv[i] EXCEPT !.completion = c],
                       OutcomeOf(inv[i].op, TextOf(i), c))]
  /\ UNCHANGED <<chatbot, navigation, knowledgeBase,
                 op, env, text, data, pc, calls, completion, result, thrown, tier,
                 financialData, workbook, confidenceScore, request, response>>

----------------------------------------------------------------------------
(* The onboarding chatbot: ChatbotInterface *)

\* Time is counted in ticks of TickMs milliseconds, the largest unit that
\* divides every delay of the component.  setTimeout callbacks run in the order
\* of their due times, and in the order of their registration when due together.
TickMs == 500

\* the delays of the setTimeout calls, in milliseconds
AnalyzingDelay == 2000
CompleteDelay == 1500
AnalysisDelay == 2000
SorryDelay == 1000
GreatDelay == 1000

\* every variable of the extraction operations, for a behaviour that runs none
NoOperation ==
  /\ op = "none"
  /\ env = Undefined
  /\ text = <<>>
  /\ data = <<>>
  /\ pc = "none"
  /\ calls = 0
  /\ completion = NoCompletion
  /\ result = NoResult
  /\ thrown = FALSE
  /\ tier = "none"
  /\ financialData = getDefaultFinancialData
  /\ workbook = <<>>
  /\ confidenceScore = NoResult
  /\ request = [route |-> "none"]
  /\ response = NoResult
  /\ inv = <<>>

\* addMessage, lines 60-71: the entry goes to the end of the list
addMessage(c, content, type, upload) ==
  [c EXCEPT !.messages = @ \o <<[type |-> type, content |-> content, upload |-> upload]>>]

\* a setTimeout(callback, delay) of the component
setTimeout(c, run, content, upload, delay) ==
  [c EXCEPT !.timers = @ \o <<[run |-> run, content |-> content, upload |-> upload,
                               remaining |-> delay \div TickMs]>>]

\* simulateTyping, lines 73-79, up to its setTimeout
simulateTyping(c, content, upload, delay) ==
  setTimeout([c EXCEPT !.isTyping = TRUE], "typing", content, upload, delay)

\* the timers that are due
DueTimers(c) == {i \in 1..Len(c.timers) : c.timers[i].remaining = 0}

\* the component as mounted, lines 38-50
InitChatbot ==
  /\ NoOperation
  /\ navigation = NoResult
  /\ knowledgeBase = NoResult
  /\ chatbot = [messages |-> <<[type |-> "bot", content |-> "welcome", upload |-> 0]>>,
                isTyping |-> FALSE,
                currentStep |-> "greeting",
                uploadedFile |-> FALSE,
                isProcessing |-> FALSE,
                timers |-> <<>>,
                fetch |-> [pending |-> FALSE, waited |-> 0],
                uploads |-> 0,
                parsed |-> {}]

\* a handler of the component runs: chatbot becomes c
ChatbotStep(c) ==
  /\ chatbot' = c
  /\ UNCHANGED <<op, env, text, data, pc, calls, completion, result, thrown, tier,
                 financialData, workbook, confidenceScore, request, response, inv,
                 navigation, knowledgeBase>>

\* handleFileChange, lines 195-200: the user picks a file
handleFileChange ==
  /\ ~chatbot.uploadedFile
  /\ ChatbotStep([chatbot EXCEPT !.uploadedFile = TRUE])

\* handleFileUpload, lines 81-98, up to the await of the fetch
handleFileUpload(c, upload) ==
  [simulateTyping(addMessage([c EXCEPT !.uploadedFile = TRUE, !.isProcessing = TRUE,
                                       !.uploads = upload],
                             "uploaded", "user", upload),
                  "analyzing", upload, AnalyzingDelay)
     EXCEPT !.fetch = [pending |-> TRUE, waited |-> 0]]

\* handleSendMessage, lines 177-193, with text typed or a file picked; the
\* button is disabled while isProcessing
handleSendMessage ==
  /\ ~chatbot.isProcessing
  /\ DueTimers(chatbot) = {}
  /\ Len(chatbot.messages) < MaxMessages
  /\ IF chatbot.uploadedFile
     THEN ChatbotStep(handleFileUpload(chatbot, chatbot.uploads + 1))
     ELSE IF chatbot.currentStep = "greeting"
     THEN ChatbotStep([simulateTyping(addMessage(chatbot, "text", "user", 0),
                                      "great", 0, GreatDelay)
                         EXCEPT !.currentStep = "upload"])
     ELSE ChatbotStep(addMessage(chatbot, "text", "user", 0))

\* handleFileUpload, lines 100-117, after the await: the response is ok
ParseSucceeds ==
  /\ chatbot.fetch.pending
  /\ DueTimers(chatbot) = {}
  /\ ChatbotStep([setTimeout(simulateTyping(chatbot, "complete", chatbot.uploads,
                                            CompleteDelay),
                             "analysis", "analysis", chatbot.uploads, AnalysisDelay)
                    EXCEPT !.fetch.pending = FALSE,
                           !.parsed = @ \cup {chatbot.uploads}])

\* handleFileUpload, lines 100-103 and 118-121: the fetch throws or the response
\* is not ok
ParseFails ==
  /\ chatbot.fetch.pending
  /\ DueTimers(chatbot) = {}
  /\ ChatbotStep([simulateTyping(chatbot, "sorry", chatbot.uploads, SorryDelay)
                    EXCEPT !.fetch.pending = FALSE, !.isProcessing = FALSE])

\* the callback of the first timer that is due: lines 75-78 for a typing
\* timer, lines 112-116 for the timer of the analysis card
TimerFires ==
  /\ DueTimers(chatbot) # {}
  /\ LET Run(i) ==
           LET Rest(c) ==
                 [c EXCEPT !.timers = [k \in 1..(Len(@) - 1) |->
                                         IF k < i THEN @[k] ELSE @[k + 1]]]
               timer == chatbot.timers[i]
           IN IF timer.run = "typing"
              THEN Rest([addMessage(chatbot, timer.content, "bot", timer.upload)
                           EXCEPT !.isTyping = FALSE])
              ELSE Rest([addMessage(chatbot, timer.content, "bot", timer.upload)
                           EXCEPT !.currentStep = "complete", !.isProcessing = FALSE])
     IN ChatbotStep(Run(Min(DueTimers(chatbot))))

\* a tick passes with a timer or the fetch outstanding and no timer due
Tick ==
  /\ chatbot.timers # <<>> \/ chatbot.fetch.pending
  /\ DueTimers(chatbot) = {}
  /\ chatbot.fetch.pending => chatbot.fetch.waited < MaxWait
  /\ ChatbotStep([chatbot EXCEPT
                    !.timers = [k \in 1..Len(@) |->
                                  [@[k] EXCEPT !.remaining = @ - 1]],
                    !.fetch.waited = IF chatbot.fetch.pending THEN @ + 1 ELSE @])

NextChatbot ==
  \/ handleFileChange
  \/ handleSendMessage
  \/ ParseSucceeds
  \/ ParseFails
  \/ TimerFires
  \/ Tick

SpecChatbot == InitChatbot /\ [][NextChatbot]_vars

----------------------------------------------------------------------------
(* The auth middleware: src/middleware.ts *)

\* redirects a browser follows for one request before it gives up
MaxRedirects == 3
\* requests of one browser session
MaxRequests == 3

\* String.prototype.startsWith
startsWith(s, prefix) == At(s, 1, prefix)

\* paths a browser may ask for
PathPool ==
  {<<"/">>, <<"/", "s", "i", "g", "n", "i", "n">>, <<"/", "s", "i", "g", "n", "u", "p">>, <<"/", "s", "i", "g", "n", "i", "n", "/", "h", "e", "l", "p">>, <<"/", "d", "a", "s", "h", "b", "o", "a", "r", "d">>,
   <<"/", "d", "a", "s", "h", "b", "o", "a", "r", "d", "/", "k", "n", "o", "w", "l", "e", "d", "g", "e", "-", "b", "a", "s", "e">>, <<"/", "d", "a", "s", "h", "b", "o", "a", "r", "d", "/", "s", "e", "t", "t", "i", "n", "g", "s">>, <<"/", "d", "a", "s", "h", "b", "o", "a", "r", "d", "/", "a", "/", "b">>,
   <<"/", "d", "a", "s", "h", "b", "o", "a", "r", "d", "x">>, <<"/", "o", "n", "b", "o", "a", "r", "d", "i", "n", "g">>, <<"/", "a", "p", "i", "/", "p", "a", "r", "s", "e", "-", "p", "d", "f">>}

\* config.matcher, lines 30-32: '/dashboard/:path*', '/signin', '/signup'
matcher(pathname) ==
  \/ pathname = <<"/", "d", "a", "s", "h", "b", "o", "a", "r", "d">>
  \/ startsWith(pathname, <<"/", "d", "a", "s", "h", "b", "o", "a", "r", "d", "/">>)
  \/ pathname = <<"/", "s", "i", "g", "n", "i", "n">>
  \/ pathname = <<"/", "s", "i", "g", "n", "u", "p">>

\* middleware that sends a visitor without a session away from /signin as well
middlewareGuardingSignin(pathname, session) ==
  IF ~session /\ (startsWith(pathname, <<"/", "d", "a", "s", "h", "b", "o", "a", "r", "d">>) \/ startsWith(pathname, <<"/", "s", "i", "g", "n", "i", "n">>))
  THEN [redirect |-> TRUE, pathname |-> <<"/", "s", "i", "g", "n", "i", "n">>]
  ELSE IF session /\ (pathname = <<"/", "s", "i", "g", "n", "i", "n">> \/ pathname = <<"/", "s", "i", "g", "n", "u", "p">>)
  THEN [redirect |-> TRUE, pathname |-> <<"/", "d", "a", "s", "h", "b", "o", "a", "r", "d", "/", "k", "n", "o", "w", "l", "e", "d", "g", "e", "-", "b", "a", "s", "e">>]
  ELSE [redirect |-> FALSE, pathname |-> pathname]

\* middleware, lines 5-28: NextResponse.redirect to a path, or NextResponse.next()
middleware(pathname, session) ==
  IF ~session /\ startsWith(pathname, <<"/", "d", "a", "s", "h", "b", "o", "a", "r", "d">>)
  THEN [redirect |-> TRUE, pathname |-> <<"/", "s", "i", "g", "n", "i", "n">>]
  ELSE IF session /\ (pathname = <<"/", "s", "i", "g", "n", "i", "n">> \/ pathname = <<"/", "s", "i", "g", "n", "u", "p">>)
  THEN [redirect |-> TRUE, pathname |-> <<"/", "d", "a", "s", "h", "b", "o", "a", "r", "d", "/", "k", "n", "o", "w", "l", "e", "d", "g", "e", "-", "b", "a", "s", "e">>]
  ELSE [redirect |-> FALSE, pathname |-> pathname]

\* a browser with or without a session asks for a path
InitMiddleware ==
  /\ NoOperation
  /\ chatbot = NoResult
  /\ knowledgeBase = NoResult
  /\ navigation \in [pathname : PathPool, session : BOOLEAN, status : {"requested"},
                     redirects : {0}, requests : {1}]

NavigationStep(n) ==
  /\ navigation' = n
  /\ UNCHANGED <<op, env, text, data, pc, calls, completion, result, thrown, tier,
                 financialData, workbook, confidenceScore, request, response, inv,
                 chatbot, knowledgeBase>>

\* the request is for a path the matcher leaves out: the middleware is not run
Unmatched ==
  /\ navigation.status = "requested"
  /\ ~matcher(navigation.pathname)
  /\ NavigationStep([navigation EXCEPT !.status = "passed"])

\* the middleware answers the request, and the browser follows a redirect
Middleware ==
  /\ navigation.status = "requested"
  /\ matcher(navigation.pathname)
  /\ navigation.redirects < MaxRedirects
  /\ LET Answer(res) ==
           IF res.redirect
           THEN [navigation EXCEPT !.pathname = res.pathname, !.redirects = @ + 1]
           ELSE [navigation EXCEPT !.status = "passed"]
     IN NavigationStep(Answer(middleware(navigation.pathname, navigation.session)))

\* the browser, its session as it was, asks for another path
Navigate ==
  /\ navigation.status = "passed"
  /\ navigation.requests < MaxRequests
  /\ \E pathname \in PathPool :
       NavigationStep([navigation EXCEPT !.pathname = pathname, !.status = "requested",
                                         !.redirects = 0, !.requests = @ + 1])

NextMiddleware ==
  \/ Unmatched
  \/ Middleware
  \/ Navigate

\* every request is answered and every redirect is followed
SpecMiddleware ==
  InitMiddleware /\ [][NextMiddleware]_vars /\ WF_vars(Unmatched) /\ WF_vars(Middleware)

----------------------------------------------------------------------------
(* The knowledge-base page: KnowledgeBasePage and ProductListParser *)

\* documents a page holds beyond which the user uploads nothing more
MaxDocuments == 2

\* files the user may pick, with their media types
FilePool ==
  {[name |-> "costs.pdf", type |-> Pdf],
   [name |-> "costs.csv", type |-> Csv],
   [name |-> "notes.txt", type |-> PlainText],
   [name |-> "photo.png", type |-> <<"i", "m", "a", "g", "e", "/", "p", "n", "g">>]}

NoFile == [name |-> "null", type |-> <<>>]

\* how ProductListParser.parsePDF can end, product-parser.ts lines 18-33: the
\* fetch rejects, the response is not ok, or the response is ok
ParseOutcomes == {"rejected", "not ok", "ok"}

\* parseProductList, product-parser.ts lines 35-41: the list of an ok
\* response, or a new Error around whatever parsePDF threw
parseProductList(file, outcome) ==
  IF outcome = "ok"
  THEN [threw |-> FALSE, value |-> [rawText |-> file.name], message |-> "null"]
  ELSE [threw |-> TRUE, value |-> NoResult,
        message |-> IF outcome = "not ok"
                    THEN "Failed to parse product list: Error: Failed to parse file"
                    ELSE "Failed to parse product list: TypeError: Failed to fetch"]

\* the page as mounted, lines 20-25
InitKnowledgeBase ==
  /\ NoOperation
  /\ chatbot = NoResult
  /\ navigation = NoResult
  /\ knowledgeBase = [selectedFile |-> NoFile,
                      isParsing |-> FALSE,
                      parsedData |-> NoResult,
                      error |-> "null",
                      uploadedDocuments |-> <<>>,
                      parsing |-> NoFile,
                      request |-> "none"]

\* a handler of the page runs: knowledgeBase becomes k
KnowledgeBaseStep(k) ==
  /\ knowledgeBase' = k
  /\ UNCHANGED <<op, env, text, data, pc, calls, completion, result, thrown, tier,
                 financialData, workbook, confidenceScore, request, response, inv,
                 chatbot, navigation>>

\* handleFileChange, lines 27-40, and handleDrop, lines 52-67: a file of a
\* supported type becomes the selection
SelectFile ==
  \E file \in FilePool :
    /\ file # knowledgeBase.selectedFile
    /\ KnowledgeBaseStep(IF file.type \in {Pdf, Xlsx, Xls, Csv, PlainText}
                         THEN [knowledgeBase EXCEPT !.selectedFile = file]
                         ELSE knowledgeBase)

\* handleUpload, lines 69-76, up to the await; the button is disabled while
\* isParsing
handleUpload ==
  /\ ~knowledgeBase.isParsing
  /\ knowledgeBase.selectedFile # NoFile
  /\ Len(knowledgeBase.uploadedDocuments) < MaxDocuments
  /\ KnowledgeBaseStep([knowledgeBase EXCEPT !.isParsing = TRUE, !.error = "null",
                                             !.parsing = knowledgeBase.selectedFile,
                                             !.request = "pending"])

\* UploadEnds without the finally block
UploadEndsStillParsing(outcome) ==
  /\ knowledgeBase.request = "pending"
  /\ LET After(parsed) ==
           IF parsed.threw
           THEN [knowledgeBase EXCEPT !.error = parsed.message, !.request = "failed"]
           ELSE [knowledgeBase EXCEPT !.parsedData = parsed.value,
                                      !.uploadedDocuments = Append(@, parsed.value),
                                      !.selectedFile = NoFile,
                                      !.request = "ok"]
     IN KnowledgeBaseStep(After(parseProductList(knowledgeBase.parsing, outcome)))

\* handleUpload, lines 76-88, after the await: try, catch and finally
UploadEnds(outcome) ==
  /\ knowledgeBase.request = "pending"
  /\ LET After(parsed) ==
           IF parsed.threw
           THEN [knowledgeBase EXCEPT !.error = parsed.message, !.isParsing = FALSE,
                                      !.request = "failed"]
           ELSE [knowledgeBase EXCEPT !.parsedData = parsed.value,
                                      !.uploadedDocuments = Append(@, parsed.value),
                                      !.selectedFile = NoFile,
                                      !.isParsing = FALSE,
                                      !.request = "ok"]
     IN KnowledgeBaseStep(After(parseProductList(knowledgeBase.parsing, outcome)))

\* handleViewDocument, lines 91-93
handleViewDocument ==
  \E i \in 1..Len(knowledgeBase.uploadedDocuments) :
    /\ knowledgeBase.parsedData # knowledgeBase.uploadedDocuments[i]
    /\ KnowledgeBaseStep([knowledgeBase EXCEPT
                            !.parsedData = knowledgeBase.uploadedDocuments[i]])

\* the request of a pending upload comes to an end
RequestEnds == \E outcome \in ParseOutcomes : UploadEnds(outcome)

NextKnowledgeBase ==
  \/ SelectFile
  \/ handleUpload
  \/ RequestEnds
  \/ handleViewDocument

\* a request that is pending comes to an end
SpecKnowledgeBase ==
  InitKnowledgeBase /\ [][NextKnowledgeBase]_vars /\ WF_vars(RequestEnds)
----------------------------------------------------------------------------
(* The specification *)

\* an operation is invoked on its input, or a route handler is sent a request
Init ==
  /\ \/ /\ request = [route |-> "none"]
        /\ op \in Ops
        /\ env \in (IF op \in {"parseFinancialDataFromText", "parseProductsWithAI"}
                    THEN EnvPool ELSE {Undefined})
        /\ text \in (CASE op = "parseFinancialDataFromText" -> FinancialTexts
                       [] op = "parseProductsWithAI" -> ProductTexts
                       [] OTHER -> {<<>>})
        /\ workbook \in (IF op = "extractFinancialDataFromExcel" THEN Workbooks
                         ELSE {<<>>})
        /\ pc = (IF op = "extractFinancialDataFromExcel" THEN "select" ELSE "start")
        /\ financialData \in (IF op \in {"AIFinancialParser.calculateConfidence",
                                          "calculateConfidence"}
                              THEN ScoreInputs ELSE {getDefaultFinancialData})
     \/ /\ request \in Requests("parse-pdf") \cup Requests("parse-products")
        /\ op = (IF request.route = "parse-pdf" THEN "parseFinancialDataFromText"
                 ELSE "parseProductsWithAI")
        /\ env \in EnvPool
        /\ text = <<>>
        /\ workbook = <<>>
        /\ pc = "request"
        /\ financialData = getDefaultFinancialData
  /\ data = <<>>
  /\ calls = 0
  /\ completion = NoCompletion
  /\ result = NoResult
  /\ thrown = FALSE
  /\ tier = "none"
  /\ confidenceScore = NoResult
  /\ response = NoResult
  /\ inv = <<>>
  /\ chatbot = NoResult
  /\ navigation = NoResult
  /\ knowledgeBase = NoResult

Next ==
  \/ StartFinancial
  \/ ResolveFinancial
  \/ StartProducts
  \/ ResolveProducts
  \/ SelectSheet
  \/ ScanLabels
  \/ InferTotals
  \/ LargeNumberFallback
  \/ DeriveValues
  \/ CleanUpAndReturn
  \/ ScoreStatement
  \/ ScoreSheet
  \/ ReceiveFinancial
  \/ RespondFinancial
  \/ ReceiveProducts
  \/ RespondProducts

Spec == Init /\ [][Next]_vars

----------------------------------------------------------------------------
(* The specification of the invocations side by side *)

InitConcurrent ==
  /\ inv \in [1..MaxInvocations ->
               {[op |-> input.op, text |-> input.text, pc |-> "start", calls |-> 0,
                 completion |-> NoCompletion, result |-> NoResult, thrown |-> FALSE,
                 tier |-> "none"] : input \in ConcurrentInputs}]
  /\ env \in EnvPool
  /\ op = "invocations"
  /\ request = [route |-> "none"]
  /\ response = NoResult
  /\ text = <<>>
  /\ workbook = <<>>
  /\ data = <<>>
  /\ pc = "invocations"
  /\ calls = 0
  /\ completion = NoCompletion
  /\ result = NoResult
  /\ thrown = FALSE
  /\ tier = "none"
  /\ financialData = getDefaultFinancialData
  /\ confidenceScore = NoResult
  /\ chatbot = NoResult
  /\ navigation = NoResult
  /\ knowledgeBase = NoResult

NextConcurrent ==
  \/ \E i \in 1..MaxInvocations : StartCall(i)
  \/ \E i \in 1..MaxInvocations : ResolveCall(i)

SpecConcurrent == InitConcurrent /\ [][NextConcurrent]_vars
----------------------------------------------------------------------------
(* The claims *)

FinancialOp == op = "parseFinancialDataFromText"
ProductOp == op = "parseProductsWithAI"
ExcelOp == op = "extractFinancialDataFromExcel"
Finished == pc = "done"

\* the completions that carry no usable JSON
UnusableKinds == {"throws", "empty", "noblock", "badjson"}

\* the FinancialRecord of a finished invocation
ReturnedRecord == IF ExcelOp THEN result ELSE result.data

\* C1: whenever the completion call throws, is empty, or is not JSON (no {...}
\* block, or a block that does not parse), parseFinancialDataFromText returns
\* what the fallback parser returns for the same text.
C1_FinancialFallbackEquivalence ==
  FinancialOp /\ Finished /\ completion.kind \in UnusableKinds
    => result = FinancialFallbackParsing(text)

\* C2: whenever no key is configured, or the completion call throws, is empty,
\* has no {...} block or has a block that does not parse, parseProductsWithAI
\* returns exactly fallbackParsing(text).
C2_ProductFallbackEquivalence ==
  ProductOp /\ Finished /\ (~Truthy(env) \/ completion.kind \in UnusableKinds)
    => ~thrown /\ result = ProductFallbackParsing(text)

\* a completion that does not parse was answered by a fallback that found a product
C2_Witness ==
  /\ ProductOp /\ Finished /\ completion.kind = "badjson"
  /\ result = ProductFallbackParsing(text)
  /\ Len(result.products) > 0

\* C3: whatever the outcome of the completion call, parseFinancialDataFromText
\* and parseProductsWithAI end with a full ParsedStatement / ParsedProductList
\* and never with an error.
C3_FailuresNeverSurface ==
  /\ FinancialOp /\ Finished
       => /\ ~thrown
          /\ DOMAIN result = {"companyName", "statementType", "period", "data",
                              "rawText", "confidence"}
          /\ DOMAIN result.data = Fields
          /\ result.rawText = text
  /\ ProductOp /\ Finished
       => /\ ~thrown
          /\ DOMAIN result = {"products", "totalItems", "totalValue", "rawText",
                              "confidence"}
          /\ \A i \in 1..Len(result.products) :
               DOMAIN result.products[i] = {"name", "price", "quantity", "currency"}
          /\ result.rawText = text

\* the completion call was rejected and the invocation returned a statement
C3_Witness ==
  /\ FinancialOp /\ Finished /\ completion.kind = "throws"
  /\ ~thrown /\ result.data.revenue = Whole(5000)

\* C4: within one invocation the completion endpoint is called at most once:
\* a call is issued only from the start, the step that settles it ends the
\* invocation without a further call, and a result of the fallback tier is
\* produced without calling.
C4_AtMostOneCall ==
  [][/\ calls' <= 1
     /\ (calls' # calls => pc = "start" /\ calls' = calls + 1)
     /\ (pc = "awaiting" => pc' = "done" /\ calls' = calls)
     /\ (tier' = "fallback" /\ tier # "fallback" => calls' = calls)]_vars

\* one call was made, it failed, and the fallback produced the result
C4_Witness ==
  /\ Finished /\ calls = 1 /\ tier = "fallback"
  /\ completion.kind \in {"throws", "empty"}

\* C5: in an invocation of either extractor with no API key configured, no
\* completion call is made and the result comes from the fallback tier.
C5_NoKeyNoCall ==
  (FinancialOp \/ ProductOp) /\ ~Truthy(env)
    => /\ calls = 0
       /\ completion = NoCompletion
       /\ pc # "awaiting"
       /\ (Finished => tier = "fallback")

\* the product extractor finished without a key
C5_Witness ==
  ProductOp /\ env = Str(<<>>) /\ Finished /\ tier = "fallback" /\ calls = 0

\* C6: every ParsedStatement of the model-assisted extractor has statementType
\* income, balance or cashflow.
C6_StatementTypeEnum ==
  FinancialOp /\ Finished => result.statementType \in {Str(s) : s \in StatementTypes}

\* C7: every ParsedStatement and ParsedProductList returned has a confidence
\* within [0, 100].
C7_ConfidenceInRange ==
  (FinancialOp \/ ProductOp) /\ Finished
    => /\ result.confidence.t = "number"
       /\ result.confidence.n >= 0
       /\ result.confidence.n <= 100 * Scale

\* C8: in every FinancialRecord returned, the 15 metric fields and year are
\* numbers, never undefined or NaN.
C8_FieldsAreNumbers ==
  (FinancialOp \/ ExcelOp) /\ Finished
    => \A f \in Fields : ReturnedRecord[f].t = "number"

\* C9: after extractFinancialDataFromExcel every field but year is >= 0.
C9_NonNegativeAfterCleanUp ==
  ExcelOp /\ Finished
    => \A f \in MetricFields : result[f].t = "number" /\ result[f].n >= 0

\* C10 as stated: a derived target that is exactly 0 and whose inputs are both
\* non-zero is set by the derivation step to the difference of its inputs.
C10_DerivedWhenNonZero ==
  [][pc = "derive" /\ pc' = "clean"
       => /\ financialData.grossProfit = Whole(0)
             /\ NonZero(financialData.revenue) /\ NonZero(financialData.costOfGoodsSold)
             => financialData'.grossProfit
                  = Minus(financialData'.revenue, financialData'.costOfGoodsSold)
          /\ financialData.operatingIncome = Whole(0)
             /\ NonZero(financialData.grossProfit) /\ NonZero(financialData.operatingExpenses)
             => financialData'.operatingIncome
                  = Minus(financialData'.grossProfit, financialData'.operatingExpenses)
          /\ financialData.totalEquity = Whole(0)
             /\ NonZero(financialData.totalAssets) /\ NonZero(financialData.totalLiabilities)
             => financialData'.totalEquity
                  = Minus(financialData'.totalAssets, financialData'.totalLiabilities)]_vars

\* C10 as amended: a derived target that is exactly 0 and whose inputs are both
\* greater than 0 is set to the difference of its inputs, the three rules
\* running in order (operatingIncome reads the grossProfit the first rule
\* left); the fallback of the model-assisted extractor has the grossProfit
\* rule alone.
C10_DerivedWhenPositive ==
  [][/\ pc = "derive" /\ pc' = "clean"
          => /\ financialData.grossProfit = Whole(0)
                /\ Positive(financialData.revenue)
                /\ Positive(financialData.costOfGoodsSold)
                => financialData'.grossProfit
                     = Minus(financialData.revenue, financialData.costOfGoodsSold)
             /\ financialData.operatingIncome = Whole(0)
                /\ Positive(financialData'.grossProfit)
                /\ Positive(financialData.operatingExpenses)
                => financialData'.operatingIncome
                     = Minus(financialData'.grossProfit, financialData.operatingExpenses)
             /\ financialData.totalEquity = Whole(0)
                /\ Positive(financialData.totalAssets)
                /\ Positive(financialData.totalLiabilities)
                => financialData'.totalEquity
                     = Minus(financialData.totalAssets, financialData.totalLiabilities)
             /\ \A f \in Fields \ {"grossProfit", "operatingIncome", "totalEquity"} :
                  financialData'[f] = financialData[f]
     /\ FinancialOp /\ pc' = "done" /\ tier' = "fallback"
          => (Positive(result'.data.revenue) /\ Positive(result'.data.costOfGoodsSold)
                => result'.data.grossProfit
                     = Minus(result'.data.revenue, result'.data.costOfGoodsSold))]_vars

\* revenue 1000 and costOfGoodsSold 600 gave grossProfit 400
C10_Witness ==
  /\ ExcelOp /\ pc = "clean"
  /\ financialData.revenue = Whole(1000)
  /\ financialData.costOfGoodsSold = Whole(600)
  /\ financialData.grossProfit = Whole(400)

\* the cell holds one of the label terms of the extractor, or one of the
\* keywords of its total/subtotal inference
HasLabelTerm(cell) ==
  LET In(cellValue) ==
        \E f \in MetricFields :
          \E i \in 1..Len(patterns[f]) : includes(cellValue, patterns[f][i])
  IN In(toLowerCase(cell))

NoLabelTerms(rows) ==
  \A r \in 1..Len(rows) : \A c \in 1..Len(rows[r]) : ~HasLabelTerm(rows[r][c])

\* no cell has the keyword equity, which the total/subtotal inference reads and
\* which is no label term by itself, and no cell holds a number above 10000
NothingToInfer(rows) ==
  \A r \in 1..Len(rows) : \A c \in 1..Len(rows[r]) :
    /\ ~includes(toLowerCase(rows[r][c]), <<"e", "q", "u", "i", "t", "y">>)
    /\ ~Positive(Minus(parseValue(rows[r][c]), Whole(10000)))

\* C11 as stated: for a table none of whose cells contains a financial label
\* term, the extractor returns every field at its default (0, the current year)
\* and the confidence scorer returns 0 for that record.
C11_DefaultSafety ==
  ExcelOp /\ Finished /\ NoLabelTerms(data)
    => result = getDefaultFinancialData /\ confidenceScore = Whole(0)

\* C11 as amended: for a table none of whose cells contains a financial label
\* term or the inference keyword equity, and none of whose cells holds a number
\* above 10000, the extractor returns every field at its default and the
\* confidence scorer returns 0.
C11_DefaultSafetyWithoutLargeNumbers ==
  ExcelOp /\ Finished /\ NoLabelTerms(data) /\ NothingToInfer(data)
    => result = getDefaultFinancialData /\ confidenceScore = Whole(0)

\* a grid with a number between 1000 and 10000 and no label came back as the
\* default record
C11_Witness ==
  /\ ExcelOp /\ Finished /\ data = <<<<<<"A", "c", "m", "e", " ", "C", "o", "r", "p">>, <<"2", "0", "2", "4">>>>>>
  /\ result = getDefaultFinancialData /\ confidenceScore = Whole(0)

\* the cell is one the label scan matches for field f
Matches(f, cell) ==
  LET In(cellValue) ==
        \E i \in 1..Len(patterns[f]) : includes(cellValue, patterns[f][i])
  IN In(trim(toLowerCase(cell)))

\* the non-zero values next to the cells matched for f, in the order of the scan
RECURSIVE Candidates(_, _, _, _)
Candidates(f, rows, r, c) ==
  LET Here(value) ==
        IF Matches(f, rows[r][c]) /\ value # Whole(0) THEN <<value>> ELSE <<>>
  IN IF r > Len(rows) THEN <<>>
     ELSE IF c > Len(rows[r]) THEN Candidates(f, rows, r + 1, 1)
     ELSE Here(AdjacentValue(rows[r], c)) \o Candidates(f, rows, r, c + 1)

\* the first of the candidates of largest magnitude, 0 when there is none
LargestOf(cs) ==
  IF cs = <<>> THEN Whole(0)
  ELSE cs[Min({i \in 1..Len(cs) : \A j \in 1..Len(cs) : Abs(cs[j].n) <= Abs(cs[i].n)})]

RevenueExample == <<<<<<"R", "e", "v", "e", "n", "u", "e">>, <<"1", "0", "0">>>>, <<<<"T", "o", "t", "a", "l", " ", "R", "e", "v", "e", "n", "u", "e">>, <<"5", "0", "0">>>>>>

\* C12: the label scan overwrites a non-zero field only by a value of strictly
\* larger magnitude, so that after the scan every field holds the first of the
\* largest-magnitude non-zero candidates matched for it (0 when there is none)
\* and never a sum; "Revenue" 100 followed by "Total Revenue" 500 ends with
\* revenue 500.
C12_LargestMagnitudeWins ==
  /\ ExcelOp /\ pc = "totals"
       => \A f \in MetricFields :
            financialData[f] = LargestOf(Candidates(f, data, 1, 1))
  /\ ExcelOp /\ Finished /\ data = RevenueExample => result.revenue = Whole(500)

\* a tie in magnitude kept the earlier value: (500) before 500
C12_Witness ==
  /\ ExcelOp /\ pc = "totals"
  /\ data = <<<<<<"R", "e", "v", "e", "n", "u", "e">>, <<"(", "5", "0", "0", ")">>>>, <<<<"T", "o", "t", "a", "l", " ", "R", "e", "v", "e", "n", "u", "e">>, <<"5", "0", "0">>>>>>
  /\ financialData.revenue = Whole(-500)

Scorers == {"AIFinancialParser.calculateConfidence", "calculateConfidence"}

\* the fields either scorer reads
ScoredFields ==
  {"revenue", "netIncome", "totalAssets", "totalLiabilities", "cash",
   "accountsReceivable", "inventory"}

\* the record is all 0 but for metric field f
OnlyField(d, f) ==
  /\ NonZero(d[f])
  /\ \A g \in MetricFields \ {f} : d[g] = Whole(0)

\* C13 as stated: from a record whose metric fields are all 0, setting any one
\* metric field to a non-zero value makes the confidence score greater than
\* the 0 of the all-zero record, or leaves it at 100.
C13_AnyFieldRaisesConfidence ==
  op \in Scorers /\ Finished
    => \A f \in MetricFields :
         OnlyField(financialData, f)
           => Positive(confidenceScore) \/ confidenceScore = Whole(100)

\* C13 as amended: from a record whose metric fields are all 0, setting one of
\* the seven scored fields to a value above 0 (netIncome: to any non-zero
\* value) makes the confidence score greater than the 0 of the all-zero record.
C13_ScoredFieldRaisesConfidence ==
  op \in Scorers /\ Finished
    => /\ financialData = getDefaultFinancialData => confidenceScore = Whole(0)
       /\ \A f \in ScoredFields :
            /\ OnlyField(financialData, f)
            /\ (Positive(financialData[f]) \/ f = "netIncome")
            => Positive(confidenceScore)

\* the scorer of the route gave 15 to a record with totalAssets alone
C13_Witness ==
  /\ op = "calculateConfidence" /\ Finished
  /\ OnlyField(financialData, "totalAssets")
  /\ confidenceScore = Whole(15)

\* the first of the sheets of highest keyword score
HighestScoring(sheets) ==
  Min({i \in 1..Len(sheets) :
         \A j \in 1..Len(sheets) :
           scoreSheetForFinancialData(sheets[j]) <= scoreSheetForFinancialData(sheets[i])})

\* C20: the sheet selector returns the sheet of highest keyword score, and the
\* first in workbook order of the sheets that share it, which is the first
\* sheet when every sheet scores 0.
C20_HighestScoringSheet ==
  ExcelOp /\ pc # "select" => data = workbook[HighestScoring(workbook)]

\* the sums over the products, from the first one on
RECURSIVE QuantitySum(_)
QuantitySum(products) ==
  IF products = <<>> THEN Whole(0)
  ELSE Plus(Head(products).quantity, QuantitySum(Tail(products)))

RECURSIVE ValueSum(_)
ValueSum(products) ==
  IF products = <<>> THEN Whole(0)
  ELSE Plus(Times(Head(products).price, Head(products).quantity),
            ValueSum(Tail(products)))

\* C14: in every ParsedProductList returned, by the model path or by the
\* fallback, totalItems is the sum of the quantities of its products and
\* totalValue the sum of price x quantity over them; both are 0 for an empty
\* list.
C14_TotalsAreSums ==
  ProductOp /\ Finished
    => /\ result.totalItems = QuantitySum(result.products)
       /\ result.totalValue = ValueSum(result.products)
       /\ result.products = <<>>
            => result.totalItems = Whole(0) /\ result.totalValue = Whole(0)

\* the model path returned two products of quantity 7 and 3 and price 100
C14_Witness ==
  /\ ProductOp /\ Finished /\ tier = "model"
  /\ Len(result.products) = 2
  /\ result.products[1].quantity # result.products[2].quantity
  /\ result.totalItems = Plus(result.products[1].quantity, result.products[2].quantity)
  /\ Positive(result.totalValue)

\* C15: every ProductRecord of every ParsedProductList returned has a non-empty
\* name, a price >= 0, a whole quantity >= 1 and a currency code.
C15_ProductRecordsValid ==
  ProductOp /\ Finished
    => \A i \in 1..Len(result.products) :
         /\ result.products[i].name # <<>>
         /\ result.products[i].price.t = "number"
         /\ result.products[i].price.n >= 0
         /\ result.products[i].quantity.t = "number"
         /\ result.products[i].quantity.n % Scale = 0
         /\ result.products[i].quantity.n >= Scale
         /\ result.products[i].currency # <<>>

\* the line is name - price - quantity with a price part above 0
IsDashLine(line) ==
  LET Of(format1) == format1 # <<>> /\ Positive(parsePrice(format1[2]))
  IN Of(Format1(trim(line)))

\* the product of a name - price - quantity line
DashLineProduct(format1) ==
  [name |-> trim(format1[1]),
   price |-> parsePrice(format1[2]),
   quantity |-> parseQuantity(format1[3]),
   currency |-> detectCurrency(format1[2])]

MetalThermos == <<"M", "e", "t", "a", "l", " ", "T", "h", "e", "r", "m", "o", "s", " ", "-", " ", "1", "0", "0", " ", "U", "S", "D", " ", "-", " ", "7", " ", "P", "i", "e", "c", "e", "s">>

\* C16: in the line-oriented fallback a line name - price - quantity (hyphen,
\* en dash or em dash) whose price part parses above 0 gives exactly one
\* product: the trimmed name, that price, the quantity of the third part and
\* the currency of the price part, and nothing from the second format; the
\* line "Metal Thermos - 100 USD - 7 Pieces" alone gives Metal Thermos, 100,
\* 7, USD with totalItems 7 and totalValue 700.
C16_DashLineGivesOneProduct ==
  /\ ProductOp /\ Finished /\ tier = "fallback"
     /\ (\A i \in 1..Len(text) : IsDashLine(text[i]))
       => result.products
            = [i \in 1..Len(text) |-> DashLineProduct(Format1(trim(text[i])))]
  /\ ProductOp /\ Finished /\ tier = "fallback" /\ text = <<MetalThermos>>
       => /\ result.products
               = << [name |-> <<"M", "e", "t", "a", "l", " ", "T", "h", "e", "r", "m", "o", "s">>, price |-> Whole(100),
                     quantity |-> Whole(7), currency |-> <<"U", "S", "D">>] >>
          /\ result.totalItems = Whole(7)
          /\ result.totalValue = Whole(700)

\* a line with an en dash, an em dash and a euro sign gave the one product
C16_Witness ==
  /\ ProductOp /\ Finished /\ tier = "fallback"
  /\ Len(text) = 2 /\ text[1] = MetalThermos /\ text[2] # MetalThermos
  /\ IsDashLine(text[2])
  /\ Len(result.products) = 2
  /\ result.products[2].price = Num(450)
  /\ result.products[2].quantity = Whole(12)
  /\ result.products[2].currency = <<"E", "U", "R">>

Routes == {"parse-pdf", "parse-products"}

\* the handler is past its checks of the request
PastBoundary == request.route \in Routes /\ pc # "request"

\* the request was answered with a 400 before any conversion and any call
RejectedAtBoundary ==
  /\ pc = "responded"
  /\ response.status = 400
  /\ text = <<>>
  /\ calls = 0
  /\ completion = NoCompletion

AllowList == {Pdf, Xlsx, Xls, Csv, PlainText}

\* C17 as stated: on both routes a request with no file, or with a media type
\* outside {application/pdf, xlsx, xls, text/csv, text/plain}, is answered
\* with a 400 before any ingestion or model call, and a request with a type
\* inside the list is not answered with a 400.
C17_OneAllowList ==
  PastBoundary
    => IF ~request.file \/ request.type \notin AllowList
       THEN RejectedAtBoundary
       ELSE ~(pc = "responded" /\ response.status = 400)

\* the list each route accepts
AllowListOf(route) == IF route = "parse-pdf" THEN AllowList \ {PlainText} ELSE AllowList

\* C17 as amended: a request with no file, or with a media type outside the
\* list of its route (application/pdf, xlsx, xls, text/csv, and text/plain on
\* the product route only), is answered with a 400 before any ingestion or
\* model call, and a request with a type inside the list of its route is not
\* answered with a 400.
C17_AllowListOfRoute ==
  PastBoundary
    => IF ~request.file \/ request.type \notin AllowListOf(request.route)
       THEN RejectedAtBoundary
       ELSE ~(pc = "responded" /\ response.status = 400)

\* the financial route rejected a text/plain file
C17_Witness ==
  /\ request.route = "parse-pdf" /\ request.file /\ request.type = PlainText
  /\ RejectedAtBoundary

\* a request with a file of type application/pdf
PdfRequest == request.route \in Routes /\ request.file /\ request.type = Pdf

\* the answer is the placeholder, with no conversion of the buffer and no call
Placeholder ==
  /\ pc = "responded"
  /\ response = Json(200, MockPdfData)
  /\ text = <<>>
  /\ calls = 0
  /\ completion = NoCompletion

\* C18 as stated: a request of type application/pdf is answered with the fixed
\* placeholder record, whatever its buffer holds, with no text extraction
\* and no model-completion call.
C18_PdfPlaceholder == PdfRequest /\ pc # "request" => Placeholder

\* C18 as amended: on the financial route a request of type application/pdf is
\* answered with the fixed placeholder record, whatever its buffer holds, with
\* no text extraction and no model-completion call; on the product route the
\* buffer of a PDF is decoded as UTF-8 text, which goes to the product
\* extractor, and the answer is what the extractor returned.
C18_PdfPlaceholderOnFinancialRoute ==
  PdfRequest /\ pc # "request"
    => IF request.route = "parse-pdf" THEN Placeholder
       ELSE /\ text = request.buffer.utf8
            /\ pc = "responded" => response = Json(200, result)
            /\ Finished => result.rawText = request.buffer.utf8

\* the financial route answered a PDF that no decoder reads with the placeholder
C18_Witness ==
  /\ PdfRequest /\ request.route = "parse-pdf" /\ ~request.buffer.readable
  /\ Placeholder

\* what an invocation of o on lines ends with when it runs alone, the key being
\* e and its completion call, if it makes one, resolving to c
RunAlone(o, e, lines, c) ==
  IF KeyMissing(o, e) THEN OutcomeOf(o, lines, NoCompletion)
  ELSE OutcomeOf(o, lines, c)

InferenceGroups ==
  <<[field |-> "revenue", words |-> {<<"r", "e", "v", "e", "n", "u", "e">>, <<"s", "a", "l", "e", "s">>}],
    [field |-> "totalAssets", words |-> {<<"a", "s", "s", "e", "t", "s">>}],
    [field |-> "totalLiabilities", words |-> {<<"l", "i", "a", "b", "i", "l", "i", "t", "i", "e", "s">>}],
    [field |-> "totalEquity", words |-> {<<"e", "q", "u", "i", "t", "y">>}]>>

\* the row is one the inference reads: its joined text has "total" or "subtotal"
IsTotalRow(row) ==
  /\ row # <<>>
  /\ \/ includes(toLowerCase(JoinCells(row)), <<"t", "o", "t", "a", "l">>)
     \/ includes(toLowerCase(JoinCells(row)), <<"s", "u", "b", "t", "o", "t", "a", "l">>)

\* the row mentions keyword group g
Mentions(row, g) ==
  \E w \in InferenceGroups[g].words : includes(toLowerCase(JoinCells(row)), w)

\* g is the first group, in the order above, that the row mentions
MentionsFirst(row, g) ==
  Mentions(row, g) /\ \A h \in 1..(g - 1) : ~Mentions(row, h)

PositiveCells(row) == {c \in 1..Len(row) : Positive(parseValue(row[c]))}

FirstPositiveCell(row) == parseValue(row[Min(PositiveCells(row))])

\* what the inference pass did to the field of every group, the rows of a group
\* being those that Names it
TotalsInferred(Names(_, _)) ==
  \A g \in DOMAIN InferenceGroups :
    LET Of(f, rows) ==
          IF financialData[f] # Whole(0) THEN financialData'[f] = financialData[f]
          ELSE rows # {} => financialData'[f] = FirstPositiveCell(data[Min(rows)])
    IN Of(InferenceGroups[g].field,
          {r \in 1..Len(data) : /\ IsTotalRow(data[r]) /\ Names(data[r], g)
                                /\ PositiveCells(data[r]) # {}})

\* C21 as stated: in the total/subtotal pass, for every row whose joined text
\* contains "total" or "subtotal" and for each keyword group the row mentions,
\* a field that is still 0 is assigned the first positive numeric cell of the
\* row, and a field that is already non-zero is left unchanged.
C21_EachGroupInferred ==
  [][pc = "totals" /\ pc' = "large" => TotalsInferred(Mentions)]_vars

\* C21 as amended: the same for the first keyword group the row mentions, in
\* the order revenue or sales, assets, liabilities, equity.
C21_FirstGroupInferred ==
  [][pc = "totals" /\ pc' = "large" => TotalsInferred(MentionsFirst)]_vars

\* the row "Equity and liabilities | total | 800" gave totalLiabilities 800
\* and left totalEquity at 0
C21_Witness ==
  /\ ExcelOp /\ pc = "large"
  /\ data = <<<<<<"E", "q", "u", "i", "t", "y", " ", "a", "n", "d", " ", "l", "i", "a", "b", "i", "l", "i", "t", "i", "e", "s">>, <<"t", "o", "t", "a", "l">>, <<"8", "0", "0">>>>>>
  /\ financialData.totalLiabilities = Whole(800)
  /\ financialData.totalEquity = Whole(0)

\* the cell is a candidate label: it is not empty
IsLabelCell(cell) == trim(toLowerCase(cell)) # <<>>

\* the values the lookup reads for cell c of row, in its order: the cell to the
\* right, the cell to the left, the cell itself
LookedUp(row, c) ==
  (IF c + 1 <= Len(row) THEN <<parseValue(row[c + 1])>> ELSE <<>>)
    \o (IF c > 1 THEN <<parseValue(row[c - 1])>> ELSE <<>>)
    \o <<parseValue(row[c])>>

\* the first non-zero of the values, 0 when all are 0
FirstNonZero(values) ==
  LET Of(at) == IF at = {} THEN Whole(0) ELSE values[Min(at)]
  IN Of({i \in 1..Len(values) : values[i] # Whole(0)})

\* the label cells of the table that the scan matches for field f
LabelCellsOf(f) ==
  {rc \in UNION {{<<r, c>> : c \in 1..Len(data[r])} : r \in 1..Len(data)} :
     /\ IsLabelCell(data[rc[1]][rc[2]])
     /\ Matches(f, data[rc[1]][rc[2]])}

\* C22: the value associated with a candidate label cell is the first non-zero
\* value among the cell to its right, the cell to its left and the cell itself,
\* in this order, and 0 only when all three parse to 0; a field the scan set
\* holds the value so associated with one of its label cells, and a field all
\* of whose label cells have the value 0 is not updated.
C22_RightLeftSelf ==
  /\ ExcelOp /\ pc # "select"
       => \A r \in 1..Len(data) : \A c \in 1..Len(data[r]) :
            IsLabelCell(data[r][c])
              => AdjacentValue(data[r], c) = FirstNonZero(LookedUp(data[r], c))
  /\ ExcelOp /\ pc = "totals"
       => \A f \in MetricFields :
            IF \A rc \in LabelCellsOf(f) :
                 FirstNonZero(LookedUp(data[rc[1]], rc[2])) = Whole(0)
            THEN financialData[f] = Whole(0)
            ELSE \E rc \in LabelCellsOf(f) :
                   financialData[f] = FirstNonZero(LookedUp(data[rc[1]], rc[2]))

\* the label "Cash" with 200 to its left and 900 to its right took the 900
C22_Witness ==
  /\ ExcelOp /\ pc = "totals"
  /\ data = <<<<<<"2", "0", "0">>, <<"C", "a", "s", "h">>, <<"9", "0", "0">>>>>>
  /\ financialData.cash = Whole(900)

DerivedFields == {"grossProfit", "operatingIncome", "totalEquity"}

\* C23: the derivation step changes a field only if the field is exactly 0
\* before the step, changes no field other than grossProfit, operatingIncome
\* and totalEquity, and leaves every populated value as it is, whether or not
\* the accounting identities hold among the populated values.
C23_DerivationFillsGaps ==
  [][pc = "derive" /\ pc' = "clean"
       => \A f \in Fields :
            financialData'[f] # financialData[f]
              => f \in DerivedFields /\ financialData[f] = Whole(0)]_vars

\* totalAssets 900, totalLiabilities 400 and totalEquity 100 are all populated
\* and left as they are, although 900 - 400 is not 100
C23_Witness ==
  /\ ExcelOp /\ pc = "clean"
  /\ financialData.totalAssets = Whole(900)
  /\ financialData.totalLiabilities = Whole(400)
  /\ financialData.totalEquity = Whole(100)

\* the points of the scored fields
Points ==
  [f \in ScoredFields |->
     CASE f \in {"revenue", "netIncome"} -> 20
       [] f \in {"totalAssets", "totalLiabilities"} -> 15
       [] OTHER -> 10]

\* the condition of scored field f holds of record d
Scores(d, f) == IF f = "netIncome" THEN NonZero(d[f]) ELSE Positive(d[f])

RECURSIVE SumOfPoints(_)
SumOfPoints(fields) ==
  IF fields = {} THEN 0
  ELSE LET f == CHOOSE g \in fields : TRUE
       IN Points[f] + SumOfPoints(fields \ {f})

\* the score of the text: the points of the conditions that hold, capped at 100
ScoreOf(d) == Min({100, SumOfPoints({f \in ScoredFields : Scores(d, f)})})

\* C24: the confidence score is 20 if revenue > 0, plus 20 if netIncome is
\* non-zero, plus 15 if totalAssets > 0, plus 15 if totalLiabilities > 0, plus
\* 10 each if cash > 0, accountsReceivable > 0, inventory > 0, capped at 100;
\* it is an integer in 0..100, it is 0 exactly when no condition holds, and the
\* scorer of the model-assisted parser and the scorer of the financial route
\* return the same value for every record.
C24_ConfidenceScore ==
  /\ op \in Scorers \cup {"extractFinancialDataFromExcel"} /\ pc = "done"
       => /\ confidenceScore = Whole(ScoreOf(financialData))
          /\ ScoreOf(financialData) \in 0..100
          /\ confidenceScore = Whole(0)
               <=> \A f \in ScoredFields : ~Scores(financialData, f)
  /\ op \in Scorers
       => calculateConfidence(financialData) = calculateSheetConfidence(financialData)

\* the scorer of the model-assisted parser gave 55 for revenue, netIncome and
\* totalAssets
C24_Witness ==
  /\ op = "AIFinancialParser.calculateConfidence" /\ pc = "done"
  /\ {f \in ScoredFields : Scores(financialData, f)}
       = {"revenue", "netIncome", "totalAssets"}
  /\ confidenceScore = Whole(55)

\* the line is handled by the second format: it is not taken by the first, is
\* at least 3 characters long and has a price or a quantity token
IsFreeTextLine(line) ==
  LET Of(trimmedLine) ==
        /\ Len(trimmedLine) >= 3
        /\ ProductByFormat1(Format1(trimmedLine)) = <<>>
        /\ hasPrice(trimmedLine) \/ hasQuantity(trimmedLine)
  IN Of(trim(line))

\* the first currency-like number of the line: an amount after a currency sign
\* or digits before a currency code; 0 when there is none
FirstCurrencyLikeNumber(s) ==
  LET Amount(p) ==
        IF s[p] \in CurrencySigns
        THEN ParseFloatStr(RemoveChars(
               SubSeq(s, p + 1 + RunLen(s, p + 1, Spaces), p + SignThenAmount(s, p) - 1),
               {","}))
        ELSE ParseIntStr(SubSeq(s, p, p + RunLen(s, p, Digits) - 1))
      Of(at) == IF at = {} THEN Whole(0) ELSE Amount(Min(at))
  IN Of({p \in 1..Len(s) :
           SignThenAmount(s, p) > 0 \/ DigitsThenWord(s, p, CurrencyCodes) > 0})

\* the first integer next to a quantity keyword; 1 when there is none
FirstKeywordQuantity(s) ==
  LET Of(at) ==
        IF at = {} THEN Whole(1)
        ELSE ParseIntStr(SubSeq(s, Min(at), Min(at) + RunLen(s, Min(at), Digits) - 1))
  IN Of({p \in 1..Len(s) : DigitsThenWord(s, p, QuantityWords) > 0})

\* C25: for a line handled by the second (free-text) product format, price is
\* the first currency-like number and 0 when there is none, quantity is the
\* first integer adjacent to a quantity keyword and 1 when the line has no such
\* token, and a product is emitted only if the name left after stripping
\* price, quantity and dash substrings is longer than 2 characters and at
\* least one of price or quantity was found.
C25_FreeTextProduct ==
  ProductOp /\ Finished /\ tier = "fallback" /\ Len(text) = 1 /\ IsFreeTextLine(text[1])
    => \/ result.products = <<>>
       \/ /\ Len(result.products) = 1
          /\ result.products[1].price = FirstCurrencyLikeNumber(trim(text[1]))
          /\ result.products[1].quantity = FirstKeywordQuantity(trim(text[1]))
          /\ Len(Format2Name(trim(text[1]))) > 2
          /\ hasPrice(trim(text[1])) \/ hasQuantity(trim(text[1]))

\* the first number written on the line, at its full value: its digits and
\* thousands separators up to the first other character, and its decimals;
\* 0 when the line has no digit
FirstWrittenNumber(s) ==
  LET Decimals(p, q) ==
        SubSeq(s, p, IF q <= Len(s) /\ s[q] = "." /\ RunLen(s, q + 1, Digits) >= 1
                     THEN q + RunLen(s, q + 1, Digits) ELSE q - 1)
      From(p) == Decimals(p, p + RunLen(s, p, Digits \cup {","}))
      Of(d) == IF d = 0 THEN Whole(0)
               ELSE ParseFloatStr(RemoveChars(From(d), {","}))
  IN Of(FirstDigit(s))

\* C26: in the line-oriented financial fallback the number taken from a line is
\* the full value of the first number written on the line, with or without
\* thousands separators ("1,500,000" and "1500000" both give 1500000), and 0
\* when the line has no digits: a one-line text gives every field its label
\* names that number when it is above 0.
C26_FullValueOfFirstNumber ==
  FinancialOp /\ Finished /\ tier = "fallback" /\ Len(text) = 1
    => /\ extractNumberFromLine(text[1]) = FirstWrittenNumber(text[1])
       /\ \A f \in FallbackLineFields(toLowerCase(text[1])) :
            Positive(FirstWrittenNumber(text[1]))
              => result.data[f] = FirstWrittenNumber(text[1])

\* the line is labelled "net income" or "net profit"
IsNetIncomeLine(line) ==
  \/ includes(toLowerCase(line), <<"n", "e", "t", " ", "i", "n", "c", "o", "m", "e">>)
  \/ includes(toLowerCase(line), <<"n", "e", "t", " ", "p", "r", "o", "f", "i", "t">>)

\* the fields the line-oriented fallback has no pattern for
UnpatternedFields ==
  {"operatingExpenses", "operatingIncome", "totalEquity", "accountsReceivable",
   "inventory", "propertyPlantEquipment", "accountsPayable", "longTermDebt"}

\* the revenue after the lines, a line labelled net income or net profit
\* leaving it as it is
RECURSIVE RevenueLeftByNetIncome(_, _)
RevenueLeftByNetIncome(revenue, lines) ==
  IF lines = <<>> THEN revenue
  ELSE RevenueLeftByNetIncome(
         IF /\ ~IsNetIncomeLine(Head(lines))
            /\ "revenue" \in FallbackLineFields(toLowerCase(Head(lines)))
            /\ Positive(extractNumberFromLine(Head(lines)))
         THEN extractNumberFromLine(Head(lines)) ELSE revenue,
         Tail(lines))

\* C27: in the line-oriented financial fallback a line updates only the field
\* its label names: a line labelled "net income" or "net profit" sets
\* netIncome and leaves revenue unchanged, and the fields the fallback has no
\* pattern for are 0 in every fallback result.
C27_OnlyTheNamedField ==
  FinancialOp /\ Finished /\ tier = "fallback"
    => /\ result.data.revenue = RevenueLeftByNetIncome(Whole(0), text)
       /\ IsNetIncomeLine(text[Len(text)])
          /\ Positive(extractNumberFromLine(text[Len(text)]))
            => result.data.netIncome = extractNumberFromLine(text[Len(text)])
       /\ \A f \in UnpatternedFields : result.data[f] = Whole(0)

\* the place in the message list of the bot entry of upload u with the content,
\* 0 when the entry is not in the list
PlaceOf(content, u) ==
  LET Of(at) == IF at = {} THEN 0 ELSE Min(at)
  IN Of({i \in 1..Len(chatbot.messages) :
           /\ chatbot.messages[i].type = "bot"
           /\ chatbot.messages[i].content = content
           /\ chatbot.messages[i].upload = u})

\* the second entry is in the list only after the first
InOrder(first, second, u) ==
  PlaceOf(second, u) # 0
    => PlaceOf(first, u) # 0 /\ PlaceOf(first, u) < PlaceOf(second, u)

\* a bot message of simulateTyping for upload u is pending
TypingPending(u) ==
  \E i \in 1..Len(chatbot.timers) :
    chatbot.timers[i].run = "typing" /\ chatbot.timers[i].upload = u

\* C28: after a file upload whose parse request succeeds, the bot entries are
\* appended to the message list in the order "Analyzing your financial
\* document", "Analysis complete", the analysis card, for every response time
\* of the parse request, and the typing indicator is not cleared while a bot
\* message is still pending.
C28_BotEntriesInOrder ==
  \A u \in chatbot.parsed :
    /\ InOrder("analyzing", "complete", u)
    /\ InOrder("complete", "analysis", u)
    /\ TypingPending(u) => chatbot.isTyping

UploadEndsAs(outcome) ==
  /\ knowledgeBase # NoResult
  /\ knowledgeBase.request = "pending"
  /\ knowledgeBase'.request = outcome

\* C30: in the knowledge-base page, a handleUpload whose parse fails leaves
\* uploadedDocuments, parsedData and selectedFile unchanged and sets error; a
\* successful one appends exactly one entry to uploadedDocuments, sets
\* parsedData to it and clears selectedFile; in both cases isParsing is true
\* while the request is pending and is eventually false again
C30_UploadOutcome ==
  /\ [][UploadEndsAs("failed") =>
          /\ knowledgeBase'.uploadedDocuments = knowledgeBase.uploadedDocuments
          /\ knowledgeBase'.parsedData = knowledgeBase.parsedData
          /\ knowledgeBase'.selectedFile = knowledgeBase.selectedFile
          /\ knowledgeBase'.error # "null"]_vars
  /\ [][UploadEndsAs("ok") =>
          /\ Len(knowledgeBase'.uploadedDocuments)
               = Len(knowledgeBase.uploadedDocuments) + 1
          /\ SubSeq(knowledgeBase'.uploadedDocuments, 1,
                    Len(knowledgeBase.uploadedDocuments))
               = knowledgeBase.uploadedDocuments
          /\ knowledgeBase'.parsedData
               = knowledgeBase'.uploadedDocuments[Len(knowledgeBase'.uploadedDocuments)]
          /\ knowledgeBase'.selectedFile = NoFile]_vars
  /\ [](knowledgeBase # NoResult /\ knowledgeBase.request = "pending"
          => knowledgeBase.isParsing)
  /\ ((knowledgeBase # NoResult /\ knowledgeBase.request = "pending")
        ~> ~knowledgeBase.isParsing)

\* one upload has failed after another succeeded: the failure is shown, the
\* page still holds the document of the first and the selection of the second
C30_Witness ==
  /\ knowledgeBase # NoResult
  /\ knowledgeBase.request = "failed"
  /\ ~knowledgeBase.isParsing
  /\ knowledgeBase.error # "null"
  /\ Len(knowledgeBase.uploadedDocuments) = 1
  /\ knowledgeBase.parsedData = knowledgeBase.uploadedDocuments[1]
  /\ knowledgeBase.selectedFile # NoFile
====
